---- MODULE Spec2Model ----
(***************************************************************************)
(* A model of the tower-defense simulation core: the EntityManager (store, *)
(* component index, query cache), the FlowField generator (distance map    *)
(* and direction grid), and the Game tick (Movement, Attack, Projectile    *)
(* stages) with tower placement and wave spawning, and the first-draft     *)
(* tile UI (TileSelectionSystem, GameUISystem).                             *)
(*                                                                         *)
(* Representation.                                                          *)
(*  - An entity is [id, components]; components is a function from          *)
(*    component names to component values (the Map<string, Component>).     *)
(*  - An id is a pair <<prefix, n>> for the template string `prefix_${n}`.  *)
(*  - A JS Map is a sequence in insertion order (entities) or a function    *)
(*    over its present keys (componentIndex, queryCache).                   *)
(*  - An Entity[] holds references: it is a sequence of ids, read through   *)
(*    the store.                                                            *)
(***************************************************************************)
EXTENDS Integers, Sequences, FiniteSets, TLC

VARIABLES
  entityManager,  \* EntityManager: [entities, componentIndex, queryCache]
  lastOp,         \* the operation called last
  queried,        \* arguments of that call, if it was a query or a lookup
  returned,       \* what that call returned
  tileMap,        \* TileMap: [width, height, grid]
  flowField,      \* FlowField: [width, height, goalPosition, grid]
  distanceMap,    \* generateDistanceMap: distanceMap[y][x]
  queue,          \* generateDistanceMap: queue of {x, y, distance}
  flowPc,         \* position in the FlowField constructor
  now,            \* the clock: Date.now() and performance.now(), in ms
  lastTime,       \* Game.lastTime
  isRunning,      \* Game.isRunning
  pendingFrames,  \* requestAnimationFrame(gameLoop) callbacks not yet run
  dueFrames,      \* of these, the callbacks the current animation frame runs
  timers,         \* setTimeout callbacks of spawnWave not yet run: their due times
  enemyIdCounter, \* Game.enemyIdCounter
  towerIdCounter, \* Game.towerIdCounter
  placingTower,   \* Game.placingTower
  removingTower,  \* Game.removingTower
  inputs,         \* how many calls and clicks the game has received
  tileUI,         \* first-draft tile UI: [tiles, currentPointer, hoveredEntity, selectedEntity, panelHidden]
  projectileIdCounter, \* AttackSystem.projectileIdCounter
  pc,             \* position in gameLoop/update
  deltaTime,      \* gameLoop: deltaTime of the tick in progress
  towers,         \* AttackSystem.update: towers
  enemies,        \* AttackSystem.update: enemies
  projectiles,    \* ProjectileSystem.update: projectiles
  entitiesToRemove, \* ProjectileSystem.update: entitiesToRemove
  idx,            \* index of the next element of the for loop in progress
  steps           \* number of clock advances so far

storeVars == <<entityManager, lastOp, queried, returned>>

flowVars == <<tileMap, flowField, distanceMap, queue, flowPc>>

tickVars ==
  <<now, lastTime, isRunning, pendingFrames, dueFrames, projectileIdCounter, pc, deltaTime,
    towers, enemies, projectiles, entitiesToRemove, idx, steps>>

gameVars ==
  <<timers, enemyIdCounter, towerIdCounter, placingTower, removingTower, inputs, tileUI>>

\* No tile UI: the first-draft application is not part of the run.
NoTileUI == <<>>

vars == <<storeVars, flowVars, tickVars, gameVars>>

-----------------------------------------------------------------------------
(* Bounds of the store specification *)

NumIds == 2

(* Bounds of the flow-field specification: a FlowSize x FlowSize grid with at
   most MaxObstacles non-walkable tiles *)

FlowSize == 3

MaxObstacles == 2

(* Bounds of the tick specifications: the clock advances TimeStep ms at a
   time, at most MaxSteps times; a scenario store holds at most MaxScenario
   entities *)

TimeStep == 500

MaxSteps == 2

MaxScenario == 2

(* Bound of the game specification: start, stop and the click listeners are
   called at most MaxInputs times in all *)

MaxInputs == 4

StoreIds == {<<"e", i>> : i \in 1..NumIds}

-----------------------------------------------------------------------------
(* Small helpers *)

NullId == <<"null", 0>>

Range(s) == {s[i] : i \in 1..Len(s)}

-----------------------------------------------------------------------------
(* Entity.ts: createEntity, addComponent, getComponent *)

createEntity(id) == [id |-> id, components |-> <<>>]

addComponent(entity, type, component) ==
  [entity EXCEPT !.components = (type :> component) @@ entity.components]

hasComponent(entity, type) == type \in DOMAIN entity.components

-----------------------------------------------------------------------------
(* EntityManager.ts *)

\* Array.prototype.sort() on component names: code-unit order of the names used.
ComponentOrder ==
  <<"Attack", "EntityType", "Health", "Movement", "Position", "Projectile", "Render",
    "Targeting", "Timing">>

ComponentRank(name) == CHOOSE i \in 1..Len(ComponentOrder) : ComponentOrder[i] = name

RECURSIVE InsertSorted(_, _)
InsertSorted(name, sorted) ==
  IF sorted = <<>> THEN <<name>>
  ELSE IF ComponentRank(name) < ComponentRank(Head(sorted))
       THEN <<name>> \o sorted
       ELSE <<Head(sorted)>> \o InsertSorted(name, Tail(sorted))

RECURSIVE SortNames(_)
SortNames(names) ==
  IF names = <<>> THEN <<>> ELSE InsertSorted(Head(names), SortNames(Tail(names)))

\* Array.prototype.join(','): the names with a separator between neighbours.
RECURSIVE Join(_)
Join(names) ==
  IF Len(names) <= 1 THEN names
  ELSE <<Head(names), ",">> \o Join(Tail(names))

\* A key made of the first name given only.
QueryKey_FirstName(componentTypes) == <<Head(componentTypes)>>

QueryKey(componentTypes) == Join(SortNames(componentTypes))

EmptyManager == [entities |-> <<>>, componentIndex |-> <<>>, queryCache |-> <<>>]

IndexOfId(entities, id) ==
  IF \E i \in 1..Len(entities) : entities[i].id = id
  THEN CHOOSE i \in 1..Len(entities) : entities[i].id = id
  ELSE 0

\* Map.get
getEntity(em, id) ==
  LET i == IndexOfId(em.entities, id)
  IN IF i = 0 THEN [id |-> NullId, components |-> <<>>] ELSE em.entities[i]

hasEntity(em, id) == IndexOfId(em.entities, id) # 0

\* Map.set: an existing key keeps its place in the iteration order.
MapSet(entities, entity) ==
  LET i == IndexOfId(entities, entity.id)
  IN IF i = 0 THEN Append(entities, entity)
     ELSE [entities EXCEPT ![i] = entity]

\* Map.delete
MapDelete(entities, id) == SelectSeq(entities, LAMBDA e : e.id # id)

updateComponentIndex(index, entity) ==
  LET types == DOMAIN entity.components
      old(t) == IF t \in DOMAIN index THEN index[t] ELSE {}
  IN [t \in DOMAIN index \cup types |->
        IF t \in types THEN old(t) \cup {entity.id} ELSE index[t]]

removeFromComponentIndex(index, entity) ==
  LET types == DOMAIN entity.components
      left(t) == IF t \in types THEN index[t] \ {entity.id} ELSE index[t]
      kept == {t \in DOMAIN index : left(t) # {}}
  IN [t \in kept |-> left(t)]

invalidateQueryCache_Keep(em) == em

invalidateQueryCache_EmptyLists(em) ==
  [em EXCEPT !.queryCache = [k \in DOMAIN em.queryCache |-> <<>>]]

invalidateQueryCache(em) == [em EXCEPT !.queryCache = <<>>]

\* addEntity without its call of invalidateQueryCache.
addEntity_CacheKept(em, entity) ==
  [em EXCEPT !.entities = MapSet(em.entities, entity),
             !.componentIndex = updateComponentIndex(em.componentIndex, entity)]

addEntity(em, entity) ==
  invalidateQueryCache(
    [em EXCEPT !.entities = MapSet(em.entities, entity),
               !.componentIndex = updateComponentIndex(em.componentIndex, entity)])

removeEntity(em, id) ==
  IF hasEntity(em, id)
  THEN invalidateQueryCache(
         [em EXCEPT !.componentIndex =
                      removeFromComponentIndex(em.componentIndex, getEntity(em, id)),
                    !.entities = MapDelete(em.entities, id)])
  ELSE em

RECURSIVE IdsOf(_)
IdsOf(entities) ==
  IF entities = <<>> THEN <<>> ELSE <<Head(entities).id>> \o IdsOf(Tail(entities))

executeQuery_TimingOptional(em, componentTypes) ==
  IdsOf(SelectSeq(em.entities,
          LAMBDA e : \A i \in 1..Len(componentTypes) :
                       componentTypes[i] = "Timing" \/ hasComponent(e, componentTypes[i])))

executeQuery(em, componentTypes) ==
  IdsOf(SelectSeq(em.entities,
          LAMBDA e : \A i \in 1..Len(componentTypes) : hasComponent(e, componentTypes[i])))

\* Returns the manager (its cache may gain an entry) and the list.
withComponents(em, componentTypes) ==
  LET queryKey == QueryKey(componentTypes)
  IN IF queryKey \in DOMAIN em.queryCache
     THEN [em |-> em, result |-> em.queryCache[queryKey]]
     ELSE LET result == executeQuery(em, componentTypes)
          IN [em |-> [em EXCEPT !.queryCache = (queryKey :> result) @@ em.queryCache],
              result |-> result]

-----------------------------------------------------------------------------
(* Numbers. Positions, distances, times (ms) and health are integers.  A    *)
(* direction component is a fraction: it is held in units of 1/Unit.        *)

Unit == 1000

Vec(x, y) == [x |-> x, y |-> y]

NullVector == [null |-> TRUE]

ZeroVector == Vec(0, 0)

-----------------------------------------------------------------------------
(* Entity factories *)

\* TowerFactory.ts: createBasicTower
createBasicTower(id, x, y) ==
  addComponent(addComponent(addComponent(addComponent(addComponent(addComponent(
    createEntity(id),
    "Position", Vec(x, y)),
    "Health", [current |-> 100, maximum |-> 100]),
    "Attack", [damage |-> 25, range |-> 100, cooldown |-> 1000]),
    "Render", [type |-> "tower", color |-> 9159498, size |-> 20, visible |-> TRUE]),
    "Targeting", [strategy |-> "closest", currentTarget |-> NullId,
                  lastTargetingTime |-> 0]),
    "Timing", [lastAttackTime |-> 0])

\* EnemyFactory.ts: createBasicEnemy
createBasicEnemy(id, x, y) ==
  addComponent(addComponent(addComponent(addComponent(addComponent(
    createEntity(id),
    "Position", Vec(x, y)),
    "Health", [current |-> 50, maximum |-> 50]),
    "Movement", [baseSpeed |-> 30, currentSpeed |-> 30, direction |-> Vec(Unit, 0)]),
    "Render", [type |-> "enemy", color |-> 16007990, size |-> 15, visible |-> TRUE]),
    "EntityType", [type |-> "enemy", faction |-> "enemy"])

\* ProjectileFactory.ts: createProjectile
createProjectile(id, x, y, targetId, damage) ==
  addComponent(addComponent(addComponent(
    createEntity(id),
    "Position", Vec(x, y)),
    "Projectile", [targetId |-> targetId, speed |-> 200, damage |-> damage,
                   lifetime |-> 3000]),
    "Render", [type |-> "projectile", color |-> 16771899, size |-> 5, visible |-> TRUE])

-----------------------------------------------------------------------------
(* The EntityManager under arbitrary inputs: addEntity, removeEntity and     *)
(* withComponents in any order, entities built by the factories.            *)

StoreEntities ==
  UNION {{createBasicTower(id, 0, 0), createBasicEnemy(id, 0, 0),
          createProjectile(id, 0, 0, NullId, 25)} : id \in StoreIds}

\* The name lists the systems and the Game pass to withComponents.
StoreQueries ==
  {<<"Position", "Health">>, <<"Health", "Position">>, <<"Position", "Projectile">>}

FlowUnused ==
  /\ tileMap = <<>>
  /\ flowField = <<>>
  /\ distanceMap = <<>>
  /\ queue = <<>>
  /\ flowPc = "unused"

\* The clock reads far more than any cooldown when the program starts.
StartTime == 100000

TickUnused ==
  /\ now = StartTime
  /\ lastTime = 0
  /\ isRunning = FALSE
  /\ pendingFrames = 0
  /\ dueFrames = 0
  /\ projectileIdCounter = 0
  /\ pc = "idle"
  /\ deltaTime = 0
  /\ towers = <<>>
  /\ enemies = <<>>
  /\ projectiles = <<>>
  /\ entitiesToRemove = <<>>
  /\ idx = 0
  /\ steps = 0

GameUnused ==
  /\ timers = <<>>
  /\ enemyIdCounter = 0
  /\ towerIdCounter = 0
  /\ placingTower = FALSE
  /\ removingTower = FALSE
  /\ inputs = 0
  /\ tileUI = NoTileUI

StoreInit ==
  /\ FlowUnused
  /\ TickUnused
  /\ GameUnused
  /\ entityManager = EmptyManager
  /\ lastOp = "new"
  /\ queried = <<>>
  /\ returned = <<>>

StoreAdd(entity) ==
  /\ entityManager' = addEntity(entityManager, entity)
  /\ lastOp' = "addEntity"
  /\ queried' = <<>>
  /\ returned' = <<>>

StoreRemove(id) ==
  /\ entityManager' = removeEntity(entityManager, id)
  /\ lastOp' = "removeEntity"
  /\ queried' = <<>>
  /\ returned' = <<>>

StoreQuery(componentTypes) ==
  LET r == withComponents(entityManager, componentTypes)
  IN /\ entityManager' = r.em
     /\ returned' = r.result
     /\ queried' = componentTypes
     /\ lastOp' = "withComponents"

StoreNext ==
  \/ \E entity \in StoreEntities : StoreAdd(entity) /\ UNCHANGED <<flowVars, tickVars, gameVars>>
  \/ \E id \in StoreIds : StoreRemove(id) /\ UNCHANGED <<flowVars, tickVars, gameVars>>
  \/ \E componentTypes \in StoreQueries : StoreQuery(componentTypes) /\ UNCHANGED <<flowVars, tickVars, gameVars>>

SpecStore == StoreInit /\ [][StoreNext]_vars

\* The stored entities that possess every named component.
Matching(em, componentTypes) ==
  {em.entities[i].id : i \in
     {j \in 1..Len(em.entities) :
        \A t \in Range(componentTypes) : t \in DOMAIN em.entities[j].components}}

IsExactly(list, em, componentTypes) ==
  /\ Range(list) = Matching(em, componentTypes)
  /\ Len(list) = Cardinality(Range(list))

\* C1: every list withComponents returns is exactly the stored entities that
\* possess every named component, at the time of the call (never a list
\* computed before the latest addEntity or removeEntity).
C1_QueryCacheCoherence ==
  lastOp = "withComponents" => IsExactly(returned, entityManager, queried)

\* C1 witness: a query answered from the store after the store was changed
\* following an earlier query of the same names.
C1_Witness ==
  /\ lastOp = "withComponents"
  /\ returned # <<>>
  /\ Len(entityManager.entities) = NumIds
  /\ Cardinality(DOMAIN entityManager.queryCache) >= 2
  /\ Len(returned) < Len(entityManager.entities)

-----------------------------------------------------------------------------
(* Arithmetic on the fixed-point numbers *)

Abs(n) == IF n < 0 THEN -n ELSE n

Sgn(n) == IF n < 0 THEN -1 ELSE IF n > 0 THEN 1 ELSE 0

\* Division of numbers (JS `/`), rounded toward zero.
Div(a, b) == Sgn(a) * Sgn(b) * (Abs(a) \div Abs(b))

RECURSIVE SqrtSearch(_, _, _)
SqrtSearch(n, lo, hi) ==
  IF hi - lo <= 1 THEN lo
  ELSE LET mid == (lo + hi) \div 2
       IN IF mid * mid <= n THEN SqrtSearch(n, mid, hi) ELSE SqrtSearch(n, lo, mid)

\* Math.sqrt, rounded down to an integer (the search stays below 2^31).
Sqrt(n) == SqrtSearch(n, 0, IF n < 46340 THEN n + 1 ELSE 46340)

-----------------------------------------------------------------------------
(* TileDefinition and TileMap *)

\* TileDefinition.properties of GRASS, SPAWN, GOAL and of a non-walkable tile.
TileDefinitions ==
  [grass |-> [walkable |-> TRUE, buildable |-> TRUE],
   spawn |-> [walkable |-> TRUE, buildable |-> FALSE, isSpawn |-> TRUE],
   goal  |-> [walkable |-> TRUE, buildable |-> FALSE, isGoal |-> TRUE],
   stone |-> [walkable |-> FALSE, buildable |-> FALSE]]

GRASS == "grass"

SPAWN == "spawn"

GOAL == "goal"

STONE == "stone"

NullTile == "null"

getProperty(tile, key, defaultValue) ==
  IF key \in DOMAIN TileDefinitions[tile] THEN TileDefinitions[tile][key]
  ELSE defaultValue

initializeGrid(width, height, spawnPos, goalPos) ==
  [y \in 0..(height - 1) |->
     [x \in 0..(width - 1) |->
        IF x = spawnPos.x /\ y = spawnPos.y THEN SPAWN
        ELSE IF x = goalPos.x /\ y = goalPos.y THEN GOAL
        ELSE GRASS]]

\* new TileMap(width, height, spawn, goal)
NewTileMap(width, height, spawn, goal) ==
  [width |-> width, height |-> height,
   grid |-> initializeGrid(width, height, spawn, goal)]

\* new TileMap(20, 15) in the Game constructor.
MapWidth == 20

MapHeight == 15

DefaultSpawn(width, height) == Vec(0, height \div 2)

DefaultGoal(width, height) == Vec(width - 1, height \div 2)

FirstWith_ColumnMajor(tm, property) ==
  LET cells == {c \in (0..(tm.height - 1)) \X (0..(tm.width - 1)) :
                  getProperty(tm.grid[c[1]][c[2]], property, FALSE)}
      first == CHOOSE c \in cells :
                 \A d \in cells : c[2] < d[2] \/ (c[2] = d[2] /\ c[1] <= d[1])
  IN IF cells = {} THEN NullVector ELSE Vec(first[2], first[1])

\* The first cell, row by row, whose tile has the property.
FirstWith(tm, property) ==
  LET cells == {c \in (0..(tm.height - 1)) \X (0..(tm.width - 1)) :
                  getProperty(tm.grid[c[1]][c[2]], property, FALSE)}
      first == CHOOSE c \in cells :
                 \A d \in cells : c[1] < d[1] \/ (c[1] = d[1] /\ c[2] <= d[2])
  IN IF cells = {} THEN NullVector ELSE Vec(first[2], first[1])

findSpawnPoint(tm) == FirstWith(tm, "isSpawn")

findGoalPoint(tm) == FirstWith(tm, "isGoal")

getTile(tm, x, y) ==
  IF x < 0 \/ x >= tm.width \/ y < 0 \/ y >= tm.height THEN NullTile
  ELSE tm.grid[y][x]

\* The nearest index of 0..(size - 1).
Clamp(n, size) == IF n < 0 THEN 0 ELSE IF n >= size THEN size - 1 ELSE n

setTile_Clamped(tm, x, y, tile) ==
  IF tm.width > 0 /\ tm.height > 0
  THEN [tm EXCEPT !.grid[Clamp(y, tm.height)][Clamp(x, tm.width)] = tile]
  ELSE tm

setTile(tm, x, y, tile) ==
  IF x >= 0 /\ x < tm.width /\ y >= 0 /\ y < tm.height
  THEN [tm EXCEPT !.grid[y][x] = tile]
  ELSE tm

isWalkable_AnyTile(tm, x, y) == getTile(tm, x, y) # NullTile

isWalkable(tm, x, y) ==
  LET tile == getTile(tm, x, y)
  IN IF tile # NullTile THEN getProperty(tile, "walkable", FALSE) ELSE FALSE

isBuildable(tm, x, y) ==
  LET tile == getTile(tm, x, y)
  IN IF tile # NullTile THEN getProperty(tile, "buildable", FALSE) ELSE FALSE

-----------------------------------------------------------------------------
(* FlowField *)

Infinity == 1000000

\* generateFlowField, lines 52-57: W, E, N, S, NW, NE, SW, SE.
FlowNeighbors ==
  <<[dx |-> -1, dy |-> 0], [dx |-> 1, dy |-> 0],
    [dx |-> 0, dy |-> -1], [dx |-> 0, dy |-> 1],
    [dx |-> -1, dy |-> -1], [dx |-> 1, dy |-> -1],
    [dx |-> -1, dy |-> 1], [dx |-> 1, dy |-> 1]>>

DistanceNeighbors_Diagonal == FlowNeighbors

\* generateDistanceMap, lines 100-103: W, E, N, S.
DistanceNeighbors ==
  <<[dx |-> -1, dy |-> 0], [dx |-> 1, dy |-> 0],
    [dx |-> 0, dy |-> -1], [dx |-> 0, dy |-> 1]>>

\* generateDistanceMap, lines 84-95: every cell Infinity, the goal 0 and queued.
InitialDistanceMap(width, height, goalPosition) ==
  [y \in 0..(height - 1) |->
     [x \in 0..(width - 1) |->
        IF x = goalPosition.x /\ y = goalPosition.y THEN 0 ELSE Infinity]]

\* The same loop body with the test newDistance <= distanceMap[ny][nx].
RECURSIVE VisitNeighbors_AlsoEqual(_, _, _, _, _)
VisitNeighbors_AlsoEqual(tm, ff, current, i, acc) ==
  IF i > Len(DistanceNeighbors) THEN acc
  ELSE LET nx == current.x + DistanceNeighbors[i].dx
           ny == current.y + DistanceNeighbors[i].dy
           newDistance == current.distance + 1
       IN IF /\ nx >= 0 /\ nx < ff.width /\ ny >= 0 /\ ny < ff.height
             /\ isWalkable(tm, nx, ny)
             /\ newDistance <= acc.distanceMap[ny][nx]
          THEN VisitNeighbors_AlsoEqual(tm, ff, current, i + 1,
                 [distanceMap |-> [acc.distanceMap EXCEPT ![ny][nx] = newDistance],
                  queue |-> Append(acc.queue,
                                   [x |-> nx, y |-> ny, distance |-> newDistance])])
          ELSE VisitNeighbors_AlsoEqual(tm, ff, current, i + 1, acc)

\* The body of the for loop over the neighbours of `current`, from neighbour i on:
\* acc = [distanceMap, queue].
RECURSIVE VisitNeighbors(_, _, _, _, _)
VisitNeighbors(tm, ff, current, i, acc) ==
  IF i > Len(DistanceNeighbors) THEN acc
  ELSE LET nx == current.x + DistanceNeighbors[i].dx
           ny == current.y + DistanceNeighbors[i].dy
           newDistance == current.distance + 1
       IN IF /\ nx >= 0 /\ nx < ff.width /\ ny >= 0 /\ ny < ff.height
             /\ isWalkable(tm, nx, ny)
             /\ newDistance < acc.distanceMap[ny][nx]
          THEN VisitNeighbors(tm, ff, current, i + 1,
                 [distanceMap |-> [acc.distanceMap EXCEPT ![ny][nx] = newDistance],
                  queue |-> Append(acc.queue,
                                   [x |-> nx, y |-> ny, distance |-> newDistance])])
          ELSE VisitNeighbors(tm, ff, current, i + 1, acc)

\* bestDirection / length, each component in units of 1/Unit.
Normalize(v) ==
  LET length == Sqrt((v.x * v.x + v.y * v.y) * Unit * Unit)
  IN IF length > 0 THEN Vec(Div(v.x * Unit * Unit, length), Div(v.y * Unit * Unit, length))
     ELSE v

DirectionOf_Swapped(neighbor) == Vec(neighbor.dy, neighbor.dx)

\* bestDirection = { x: dx, y: dy }
DirectionOf(neighbor) == Vec(neighbor.dx, neighbor.dy)

RECURSIVE BestNeighbor_LastLowest(_, _, _, _, _, _)
BestNeighbor_LastLowest(ff, dm, x, y, i, acc) ==
  IF i > Len(FlowNeighbors) THEN acc
  ELSE LET nx == x + FlowNeighbors[i].dx
           ny == y + FlowNeighbors[i].dy
       IN IF /\ nx >= 0 /\ nx < ff.width /\ ny >= 0 /\ ny < ff.height
             /\ \/ dm[ny][nx] < acc.lowestDistance
                \/ dm[ny][nx] = acc.lowestDistance /\ acc.bestDirection # ZeroVector
          THEN BestNeighbor_LastLowest(ff, dm, x, y, i + 1,
                 [bestDirection |-> DirectionOf(FlowNeighbors[i]),
                  lowestDistance |-> dm[ny][nx]])
          ELSE BestNeighbor_LastLowest(ff, dm, x, y, i + 1, acc)

\* The loop over the 8 neighbours of (x, y), from neighbour i on:
\* acc = [bestDirection, lowestDistance].
RECURSIVE BestNeighbor(_, _, _, _, _, _)
BestNeighbor(ff, dm, x, y, i, acc) ==
  IF i > Len(FlowNeighbors) THEN acc
  ELSE LET nx == x + FlowNeighbors[i].dx
           ny == y + FlowNeighbors[i].dy
       IN IF /\ nx >= 0 /\ nx < ff.width /\ ny >= 0 /\ ny < ff.height
             /\ dm[ny][nx] < acc.lowestDistance
          THEN BestNeighbor(ff, dm, x, y, i + 1,
                 [bestDirection |-> DirectionOf(FlowNeighbors[i]),
                  lowestDistance |-> dm[ny][nx]])
          ELSE BestNeighbor(ff, dm, x, y, i + 1, acc)

\* generateFlowField, lines 35-80, given the distance map.
FlowGrid(tm, ff, dm) ==
  [y \in 0..(ff.height - 1) |->
     [x \in 0..(ff.width - 1) |->
        IF ~isWalkable(tm, x, y) THEN ZeroVector
        ELSE IF dm[y][x] = Infinity THEN ZeroVector
        ELSE Normalize(
               BestNeighbor(ff, dm, x, y, 1,
                 [bestDirection |-> ZeroVector, lowestDistance |-> dm[y][x]]).bestDirection)]]

\* n iterations of `while (queue.length > 0)`, the queue holding at least n cells.
RECURSIVE VisitHeads(_, _, _, _)
VisitHeads(tm, ff, acc, n) ==
  IF n = 0 THEN acc
  ELSE VisitHeads(tm, ff,
         VisitNeighbors(tm, ff, Head(acc.queue), 1,
                        [distanceMap |-> acc.distanceMap, queue |-> Tail(acc.queue)]),
         n - 1)

\* generateDistanceMap, the while loop run until the queue is empty: the cells
\* now in the queue are visited in order, then those they added.
RECURSIVE DrainQueue(_, _, _)
DrainQueue(tm, ff, acc) ==
  IF Len(acc.queue) = 0 THEN acc.distanceMap
  ELSE DrainQueue(tm, ff, VisitHeads(tm, ff, acc, Len(acc.queue)))

generateDistanceMap(tm, ff) ==
  DrainQueue(tm, ff,
    [distanceMap |-> InitialDistanceMap(ff.width, ff.height, ff.goalPosition),
     queue |-> <<[x |-> ff.goalPosition.x, y |-> ff.goalPosition.y, distance |-> 0]>>])

\* new FlowField(tileMap, goalX, goalY): the constructor runs generateFlowField.
NewFlowField(tm, goalX, goalY) ==
  LET ff == [width |-> tm.width, height |-> tm.height, goalPosition |-> Vec(goalX, goalY),
             grid |-> <<>>]
  IN [ff EXCEPT !.grid = FlowGrid(tm, ff, generateDistanceMap(tm, ff))]

\* Math.trunc instead.
Floor_TowardZero(n) == IF n < 0 THEN -((-n) \div Unit) ELSE n \div Unit

\* Math.floor of a number held in units of 1/Unit.
Floor(n) == n \div Unit

\* x and y are numbers held in units of 1/Unit.
getFlowDirection(ff, x, y) ==
  LET tileX == Floor(x)
      tileY == Floor(y)
  IN IF tileX < 0 \/ tileX >= ff.width \/ tileY < 0 \/ tileY >= ff.height
     THEN NullVector
     ELSE ff.grid[tileY][tileX]

-----------------------------------------------------------------------------
(* The FlowField constructor, step by step: the distance propagation one    *)
(* dequeued cell at a time, then the derivation of the direction grid.      *)

FlowCells == (0..(FlowSize - 1)) \X (0..(FlowSize - 1))

\* A FlowSize x FlowSize map with STONE on the cells of `stones`.
StoneMap(stones) ==
  [width |-> FlowSize, height |-> FlowSize,
   grid |-> [y \in 0..(FlowSize - 1) |->
               [x \in 0..(FlowSize - 1) |->
                  IF <<x, y>> \in stones THEN STONE ELSE GRASS]]]

StoreUnused ==
  /\ entityManager = EmptyManager
  /\ lastOp = "new"
  /\ queried = <<>>
  /\ returned = <<>>

\* new FlowField(tileMap, goalX, goalY) up to the first test of the while loop.
FlowInit ==
  /\ StoreUnused
  /\ TickUnused
  /\ GameUnused
  /\ \E stones \in SUBSET FlowCells, goal \in FlowCells :
       /\ Cardinality(stones) <= MaxObstacles
       /\ tileMap = StoneMap(stones)
       /\ flowField = [width |-> FlowSize, height |-> FlowSize,
                       goalPosition |-> Vec(goal[1], goal[2]), grid |-> <<>>]
       /\ distanceMap = InitialDistanceMap(FlowSize, FlowSize, Vec(goal[1], goal[2]))
       /\ queue = <<[x |-> goal[1], y |-> goal[2], distance |-> 0]>>
  /\ flowPc = "distance"

\* One iteration of `while (queue.length > 0)`.
FlowVisit ==
  /\ flowPc = "distance"
  /\ Len(queue) > 0
  /\ LET current == Head(queue)
         acc == VisitNeighbors(tileMap, flowField, current, 1,
                  [distanceMap |-> distanceMap, queue |-> Tail(queue)])
     IN /\ distanceMap' = acc.distanceMap
        /\ queue' = acc.queue
  /\ UNCHANGED <<tileMap, flowField, flowPc>>

\* The queue is empty: generateDistanceMap returns and generateFlowField fills the grid.
FlowDerive ==
  /\ flowPc = "distance"
  /\ Len(queue) = 0
  /\ flowField' = [flowField EXCEPT !.grid = FlowGrid(tileMap, flowField, distanceMap)]
  /\ flowPc' = "done"
  /\ UNCHANGED <<tileMap, distanceMap, queue>>

FlowNext ==
  \/ FlowVisit /\ UNCHANGED <<storeVars, tickVars, gameVars>>
  \/ FlowDerive /\ UNCHANGED <<storeVars, tickVars, gameVars>>

SpecFlow == FlowInit /\ [][FlowNext]_vars

-----------------------------------------------------------------------------
(* Properties of the finished flow field *)

GoalCell == <<flowField.goalPosition.x, flowField.goalPosition.y>>

Walkable(c) == getProperty(tileMap.grid[c[2]][c[1]], "walkable", FALSE)

Adjacent4(c, d) == Abs(c[1] - d[1]) + Abs(c[2] - d[2]) = 1

\* The pairs <<cell, k>>: the cell is k steps from the goal, each step to a
\* 4-adjacent walkable cell, and no shorter such walk exists.
RECURSIVE StepsFrom(_, _, _)
StepsFrom(frontier, visited, k) ==
  IF frontier = {} THEN {}
  ELSE LET next == {c \in FlowCells \ visited :
                      Walkable(c) /\ \E f \in frontier : Adjacent4(c, f)}
       IN {<<f, k>> : f \in frontier} \cup StepsFrom(next, visited \cup next, k + 1)

ShortestPaths == StepsFrom({GoalCell}, {GoalCell}, 0)

DistanceAt(c) == distanceMap[c[2]][c[1]]

FlowAt(c) == flowField.grid[c[2]][c[1]]

\* C3: the goal has distance 0 and every walkable cell connected to the goal
\* by 4-adjacent walkable cells has the length of a shortest such path.
C3_ShortestDistances ==
  flowPc = "done" =>
    /\ DistanceAt(GoalCell) = 0
    /\ \A p \in ShortestPaths :
         DistanceAt(p[1]) < Infinity /\ DistanceAt(p[1]) = p[2]

\* C3 witness: a finished map where some cell's shortest path is a detour
\* around stones (longer than its Manhattan distance to the goal).
C3_Witness ==
  /\ flowPc = "done"
  /\ \E c \in FlowCells :
       /\ Walkable(c)
       /\ DistanceAt(c) < Infinity
       /\ DistanceAt(c) > Abs(c[1] - GoalCell[1]) + Abs(c[2] - GoalCell[2])

\* C4: every cell with a finite distance > 0 holds a non-zero vector whose
\* offset (the signs of its components) leads to an in-bounds 8-neighbour of
\* strictly lower distance.
C4_FlowPointsDownhill ==
  flowPc = "done" =>
    \A c \in FlowCells :
      (DistanceAt(c) < Infinity /\ DistanceAt(c) > 0) =>
        LET v == FlowAt(c)
            n == <<c[1] + Sgn(v.x), c[2] + Sgn(v.y)>>
        IN /\ v # ZeroVector
           /\ n \in FlowCells
           /\ DistanceAt(n) < DistanceAt(c)

\* C4 witness: a finished field with a diagonal (normalised) vector.
C4_Witness ==
  /\ flowPc = "done"
  /\ \E c \in FlowCells :
       /\ DistanceAt(c) < Infinity
       /\ DistanceAt(c) > 1
       /\ FlowAt(c).x # 0
       /\ FlowAt(c).y # 0
       /\ Abs(FlowAt(c).x) < Unit

Connected(c) == \E p \in ShortestPaths : p[1] = c

Isolated(c) == ~Walkable(c) \/ ~Connected(c)

\* C5 as stated: every non-walkable cell and every walkable cell without a
\* path to the goal is unreachable in the distance map and holds the zero vector.
C5_Original ==
  flowPc = "done" =>
    \A c \in FlowCells :
      Isolated(c) => DistanceAt(c) = Infinity /\ FlowAt(c) = ZeroVector

\* C5 amended: the same for every cell other than the goal cell; the goal
\* cell has distance 0 and the zero vector, walkable or not.
C5_IsolatedCells ==
  flowPc = "done" =>
    /\ \A c \in FlowCells \ {GoalCell} :
         Isolated(c) => DistanceAt(c) = Infinity /\ FlowAt(c) = ZeroVector
    /\ DistanceAt(GoalCell) = 0
    /\ FlowAt(GoalCell) = ZeroVector

\* C5 witness: a walkable cell sealed off from the goal by stones.
C5_Witness ==
  /\ flowPc = "done"
  /\ \E c \in FlowCells \ {GoalCell} :
       /\ Walkable(c)
       /\ ~Connected(c)
       /\ DistanceAt(c) = Infinity
       /\ FlowAt(c) = ZeroVector

-----------------------------------------------------------------------------
(* The systems.  A component object is mutated in place: the entity in the  *)
(* store changes, the component index and the query cache do not.           *)

getComponent(em, id, type) == getEntity(em, id).components[type]

setComponent(em, id, type, component) ==
  [em EXCEPT !.entities[IndexOfId(em.entities, id)].components[type] = component]

\* (b.x - a.x)^2 + (b.y - a.y)^2: the square of the distance Math.sqrt returns.
\* The positions are integers, so comparing squares compares the distances.
DistanceSq(a, b) == (b.x - a.x) * (b.x - a.x) + (b.y - a.y) * (b.y - a.y)

MoveEntity_SkipZeroFlow(em, ff, id, dt) ==
  LET position == getComponent(em, id, "Position")
      movement == getComponent(em, id, "Movement")
      flowDirection == getFlowDirection(ff, position.x * Unit, position.y * Unit)
      direction == IF flowDirection # NullVector /\ flowDirection # ZeroVector THEN flowDirection
                   ELSE movement.direction
      moved == Vec(position.x + Div(direction.x * movement.currentSpeed * dt, Unit * 1000),
                   position.y + Div(direction.y * movement.currentSpeed * dt, Unit * 1000))
  IN setComponent(
       setComponent(em, id, "Movement", [movement EXCEPT !.direction = direction]),
       id, "Position", moved)

\* MovementSystem.update, the body of the loop for one entity.
MoveEntity(em, ff, id, dt) ==
  LET position == getComponent(em, id, "Position")
      movement == getComponent(em, id, "Movement")
      flowDirection == getFlowDirection(ff, position.x * Unit, position.y * Unit)
      direction == IF flowDirection # NullVector THEN flowDirection
                   ELSE movement.direction
      moved == Vec(position.x + Div(direction.x * movement.currentSpeed * dt, Unit * 1000),
                   position.y + Div(direction.y * movement.currentSpeed * dt, Unit * 1000))
  IN setComponent(
       setComponent(em, id, "Movement", [movement EXCEPT !.direction = direction]),
       id, "Position", moved)

RECURSIVE MoveAll(_, _, _, _)
MoveAll(em, ff, ids, dt) ==
  IF ids = <<>> THEN em
  ELSE MoveAll(MoveEntity(em, ff, Head(ids), dt), ff, Tail(ids), dt)

\* MovementSystem.update
MovementSystem_update(em, ff, dt) ==
  LET q == withComponents(em, <<"Position", "Movement">>)
  IN MoveAll(q.em, ff, q.result, dt)

\* closestDistance = Infinity, as a square.
InfiniteDistanceSq == 2000000000

InRange_Strict(distanceSq, range) == distanceSq < range * range

\* distance <= range
InRange(distanceSq, range) == distanceSq <= range * range

RECURSIVE FindFrom_KeepLast(_, _, _, _, _, _)
FindFrom_KeepLast(em, towerPos, range, candidates, i, acc) ==
  IF i > Len(candidates) THEN acc
  ELSE LET enemyPos == getComponent(em, candidates[i], "Position")
           distance == DistanceSq(towerPos, enemyPos)
       IN IF InRange(distance, range) /\ distance <= acc.closestDistance
          THEN FindFrom_KeepLast(em, towerPos, range, candidates, i + 1,
                        [closestEnemy |-> candidates[i], closestDistance |-> distance])
          ELSE FindFrom_KeepLast(em, towerPos, range, candidates, i + 1, acc)

\* AttackSystem.findTarget, from candidate i on: acc = [closestEnemy, closestDistance].
RECURSIVE FindFrom(_, _, _, _, _, _)
FindFrom(em, towerPos, range, candidates, i, acc) ==
  IF i > Len(candidates) THEN acc
  ELSE LET enemyPos == getComponent(em, candidates[i], "Position")
           distance == DistanceSq(towerPos, enemyPos)
       IN IF InRange(distance, range) /\ distance < acc.closestDistance
          THEN FindFrom(em, towerPos, range, candidates, i + 1,
                        [closestEnemy |-> candidates[i], closestDistance |-> distance])
          ELSE FindFrom(em, towerPos, range, candidates, i + 1, acc)

findTarget(em, towerPos, range, candidates) ==
  FindFrom(em, towerPos, range, candidates, 1,
           [closestEnemy |-> NullId, closestDistance |-> InfiniteDistanceSq]).closestEnemy

ProjectileId(n) == <<"projectile", n>>

OnCooldown_Halved(currentTime, timing, attack) ==
  2 * (currentTime - timing.lastAttackTime) < attack.cooldown

\* currentTime - timing.lastAttackTime < attack.cooldown
OnCooldown(currentTime, timing, attack) ==
  currentTime - timing.lastAttackTime < attack.cooldown

MissedTarget_Stamped(em, tower, currentTime) ==
  setComponent(
    setComponent(em, tower, "Targeting",
      [getComponent(em, tower, "Targeting") EXCEPT !.currentTarget = NullId]),
    tower, "Timing", [lastAttackTime |-> currentTime])

\* findTarget returned null: targeting.currentTarget = null
MissedTarget(em, tower, currentTime) ==
  setComponent(em, tower, "Targeting",
    [getComponent(em, tower, "Targeting") EXCEPT !.currentTarget = NullId])

FireAt_AttackerAsTarget(em, tower, target, currentTime, counter) ==
  LET position == getComponent(em, tower, "Position")
      attack == getComponent(em, tower, "Attack")
      stamped ==
        setComponent(
          setComponent(em, tower, "Targeting",
            [getComponent(em, tower, "Targeting") EXCEPT !.currentTarget = target]),
          tower, "Timing", [lastAttackTime |-> currentTime])
  IN addEntity(stamped,
       createProjectile(ProjectileId(counter), position.x, position.y, tower, attack.damage))

\* The same with the id of the new projectile recorded as currentTarget.
FireAt_RecordsProjectile(em, tower, target, currentTime, counter) ==
  LET position == getComponent(em, tower, "Position")
      attack == getComponent(em, tower, "Attack")
      stamped ==
        setComponent(
          setComponent(em, tower, "Targeting",
            [getComponent(em, tower, "Targeting") EXCEPT !.currentTarget = ProjectileId(counter)]),
          tower, "Timing", [lastAttackTime |-> currentTime])
  IN addEntity(stamped,
       createProjectile(ProjectileId(counter), position.x, position.y, target, attack.damage))

\* A target was found: lines 75-86.
FireAt(em, tower, target, currentTime, counter) ==
  LET position == getComponent(em, tower, "Position")
      attack == getComponent(em, tower, "Attack")
      stamped ==
        setComponent(
          setComponent(em, tower, "Targeting",
            [getComponent(em, tower, "Targeting") EXCEPT !.currentTarget = target]),
          tower, "Timing", [lastAttackTime |-> currentTime])
  IN addEntity(stamped,
       createProjectile(ProjectileId(counter), position.x, position.y, target, attack.damage))

\* AttackSystem.update, the body of the loop for one tower:
\* the manager and the projectile id counter afterwards.
AttackWith(em, tower, candidates, currentTime, counter) ==
  LET position == getComponent(em, tower, "Position")
      attack == getComponent(em, tower, "Attack")
      timing == getComponent(em, tower, "Timing")
      target == findTarget(em, position, attack.range, candidates)
  IN IF OnCooldown(currentTime, timing, attack)
     THEN [em |-> em, counter |-> counter]
     ELSE IF target = NullId
          THEN [em |-> MissedTarget(em, tower, currentTime), counter |-> counter]
          ELSE [em |-> FireAt(em, tower, target, currentTime, counter),
                counter |-> counter + 1]

ArrivalThreshold == 5

\* ProjectileSystem.update, lines 598-603: the projectile moves toward the target.
Homing(position, targetPos, speed, dt) ==
  LET dx == targetPos.x - position.x
      dy == targetPos.y - position.y
      distance == Sqrt((dx * dx + dy * dy) * 100)
      directionX == Div(dx * Unit * 10, distance)
      directionY == Div(dy * Unit * 10, distance)
  IN Vec(position.x + Div(directionX * speed * dt, Unit * 1000),
         position.y + Div(directionY * speed * dt, Unit * 1000))

ResolveProjectile_Ageless(em, id, dt, toRemove) ==
  LET position == getComponent(em, id, "Position")
      comp == getComponent(em, id, "Projectile")
      aged == [comp EXCEPT !.lifetime = comp.lifetime]
      em1 == setComponent(em, id, "Projectile", aged)
      target == getEntity(em1, aged.targetId)
      targetPos == target.components["Position"]
      targetHealth == target.components["Health"]
      hurt == [targetHealth EXCEPT !.current = targetHealth.current - aged.damage]
  IN IF aged.lifetime <= 0
     THEN [em |-> em1, toRemove |-> Append(toRemove, id)]
     ELSE IF ~hasEntity(em1, aged.targetId)
          THEN [em |-> em1, toRemove |-> Append(toRemove, id)]
          ELSE IF DistanceSq(position, targetPos) < ArrivalThreshold * ArrivalThreshold
               THEN [em |-> setComponent(em1, target.id, "Health", hurt),
                     toRemove |->
                       IF hurt.current <= 0
                       THEN Append(Append(toRemove, target.id), id)
                       ELSE Append(toRemove, id)]
               ELSE [em |-> setComponent(em1, id, "Position",
                              Homing(position, targetPos, aged.speed, dt)),
                     toRemove |-> toRemove]

ResolveProjectile_RemoveAtOnce(em, id, dt, toRemove) ==
  LET position == getComponent(em, id, "Position")
      comp == getComponent(em, id, "Projectile")
      aged == [comp EXCEPT !.lifetime = comp.lifetime - dt]
      em1 == setComponent(em, id, "Projectile", aged)
      target == getEntity(em1, aged.targetId)
      targetPos == target.components["Position"]
      targetHealth == target.components["Health"]
      hurt == [targetHealth EXCEPT !.current = targetHealth.current - aged.damage]
  IN IF aged.lifetime <= 0
     THEN [em |-> em1, toRemove |-> Append(toRemove, id)]
     ELSE IF ~hasEntity(em1, aged.targetId)
          THEN [em |-> em1, toRemove |-> Append(toRemove, id)]
          ELSE IF DistanceSq(position, targetPos) < ArrivalThreshold * ArrivalThreshold
               THEN [em |-> IF hurt.current <= 0
                            THEN removeEntity(setComponent(em1, target.id, "Health", hurt),
                                              target.id)
                            ELSE setComponent(em1, target.id, "Health", hurt),
                     toRemove |-> Append(toRemove, id)]
               ELSE [em |-> setComponent(em1, id, "Position",
                              Homing(position, targetPos, aged.speed, dt)),
                     toRemove |-> toRemove]

ResolveProjectile_HitAtThreshold(em, id, dt, toRemove) ==
  LET position == getComponent(em, id, "Position")
      comp == getComponent(em, id, "Projectile")
      aged == [comp EXCEPT !.lifetime = comp.lifetime - dt]
      em1 == setComponent(em, id, "Projectile", aged)
      target == getEntity(em1, aged.targetId)
      targetPos == target.components["Position"]
      targetHealth == target.components["Health"]
      hurt == [targetHealth EXCEPT !.current = targetHealth.current - aged.damage]
  IN IF aged.lifetime <= 0
     THEN [em |-> em1, toRemove |-> Append(toRemove, id)]
     ELSE IF ~hasEntity(em1, aged.targetId)
          THEN [em |-> em1, toRemove |-> Append(toRemove, id)]
          ELSE IF DistanceSq(position, targetPos) <= ArrivalThreshold * ArrivalThreshold
               THEN [em |-> setComponent(em1, target.id, "Health", hurt),
                     toRemove |->
                       IF hurt.current <= 0
                       THEN Append(Append(toRemove, target.id), id)
                       ELSE Append(toRemove, id)]
               ELSE [em |-> setComponent(em1, id, "Position",
                              Homing(position, targetPos, aged.speed, dt)),
                     toRemove |-> toRemove]

ResolveProjectile_LostStays(em, id, dt, toRemove) ==
  LET position == getComponent(em, id, "Position")
      comp == getComponent(em, id, "Projectile")
      aged == [comp EXCEPT !.lifetime = comp.lifetime - dt]
      em1 == setComponent(em, id, "Projectile", aged)
      target == getEntity(em1, aged.targetId)
      targetPos == target.components["Position"]
      targetHealth == target.components["Health"]
      hurt == [targetHealth EXCEPT !.current = targetHealth.current - aged.damage]
  IN IF aged.lifetime <= 0
     THEN [em |-> em1, toRemove |-> Append(toRemove, id)]
     ELSE IF ~hasEntity(em1, aged.targetId)
          THEN [em |-> em1, toRemove |-> toRemove]
          ELSE IF DistanceSq(position, targetPos) < ArrivalThreshold * ArrivalThreshold
               THEN [em |-> setComponent(em1, target.id, "Health", hurt),
                     toRemove |->
                       IF hurt.current <= 0
                       THEN Append(Append(toRemove, target.id), id)
                       ELSE Append(toRemove, id)]
               ELSE [em |-> setComponent(em1, id, "Position",
                              Homing(position, targetPos, aged.speed, dt)),
                     toRemove |-> toRemove]

ResolveProjectile_HitBeforeExpiry(em, id, dt, toRemove) ==
  LET position == getComponent(em, id, "Position")
      comp == getComponent(em, id, "Projectile")
      aged == [comp EXCEPT !.lifetime = comp.lifetime - dt]
      em1 == setComponent(em, id, "Projectile", aged)
      target == getEntity(em1, aged.targetId)
      targetPos == target.components["Position"]
      targetHealth == target.components["Health"]
      hurt == [targetHealth EXCEPT !.current = targetHealth.current - aged.damage]
  IN IF hasEntity(em1, aged.targetId)
        /\ DistanceSq(position, targetPos) < ArrivalThreshold * ArrivalThreshold
     THEN [em |-> setComponent(em1, target.id, "Health", hurt),
           toRemove |->
             IF hurt.current <= 0
             THEN Append(Append(toRemove, target.id), id)
             ELSE Append(toRemove, id)]
     ELSE IF aged.lifetime <= 0 \/ ~hasEntity(em1, aged.targetId)
          THEN [em |-> em1, toRemove |-> Append(toRemove, id)]
          ELSE [em |-> setComponent(em1, id, "Position",
                         Homing(position, targetPos, aged.speed, dt)),
                toRemove |-> toRemove]

ResolveProjectile_BelowZero(em, id, dt, toRemove) ==
  LET position == getComponent(em, id, "Position")
      comp == getComponent(em, id, "Projectile")
      aged == [comp EXCEPT !.lifetime = comp.lifetime - dt]
      em1 == setComponent(em, id, "Projectile", aged)
      target == getEntity(em1, aged.targetId)
      targetPos == target.components["Position"]
      targetHealth == target.components["Health"]
      hurt == [targetHealth EXCEPT !.current = targetHealth.current - aged.damage]
  IN IF aged.lifetime <= 0
     THEN [em |-> em1, toRemove |-> Append(toRemove, id)]
     ELSE IF ~hasEntity(em1, aged.targetId)
          THEN [em |-> em1, toRemove |-> Append(toRemove, id)]
          ELSE IF DistanceSq(position, targetPos) < ArrivalThreshold * ArrivalThreshold
               THEN [em |-> setComponent(em1, target.id, "Health", hurt),
                     toRemove |->
                       IF hurt.current < 0
                       THEN Append(Append(toRemove, target.id), id)
                       ELSE Append(toRemove, id)]
               ELSE [em |-> setComponent(em1, id, "Position",
                              Homing(position, targetPos, aged.speed, dt)),
                     toRemove |-> toRemove]

\* ProjectileSystem.update, the body of the loop for one projectile:
\* the manager and entitiesToRemove afterwards.
ResolveProjectile(em, id, dt, toRemove) ==
  LET position == getComponent(em, id, "Position")
      comp == getComponent(em, id, "Projectile")
      aged == [comp EXCEPT !.lifetime = comp.lifetime - dt]
      em1 == setComponent(em, id, "Projectile", aged)
      target == getEntity(em1, aged.targetId)
      targetPos == target.components["Position"]
      targetHealth == target.components["Health"]
      hurt == [targetHealth EXCEPT !.current = targetHealth.current - aged.damage]
  IN IF aged.lifetime <= 0
     THEN [em |-> em1, toRemove |-> Append(toRemove, id)]
     ELSE IF ~hasEntity(em1, aged.targetId)
          THEN [em |-> em1, toRemove |-> Append(toRemove, id)]
          ELSE IF DistanceSq(position, targetPos) < ArrivalThreshold * ArrivalThreshold
               THEN [em |-> setComponent(em1, target.id, "Health", hurt),
                     toRemove |->
                       IF hurt.current <= 0
                       THEN Append(Append(toRemove, target.id), id)
                       ELSE Append(toRemove, id)]
               ELSE [em |-> setComponent(em1, id, "Position",
                              Homing(position, targetPos, aged.speed, dt)),
                     toRemove |-> toRemove]

RECURSIVE RemoveAll(_, _)
RemoveAll(em, ids) ==
  IF ids = <<>> THEN em ELSE RemoveAll(removeEntity(em, Head(ids)), Tail(ids))

-----------------------------------------------------------------------------
(* Game.gameLoop and Game.update, one step at a time.  A tick runs without  *)
(* interruption: every other action waits for pc = "idle".                  *)

UpdateOrder_AttackFirst == <<"attack", "movement", "projectile">>

\* Game.update: movementSystem, attackSystem, projectileSystem.
UpdateOrder == <<"movement", "attack", "projectile">>

\* The pc after the system `stage` returns: the next system of update, or
\* "idle" when update, render and requestAnimationFrame are done.
StageAfter(stage) ==
  LET k == CHOOSE i \in 1..Len(UpdateOrder) : UpdateOrder[i] = stage
  IN IF k < Len(UpdateOrder) THEN UpdateOrder[k + 1] ELSE "idle"

\* Leaving system `stage`; after the last one gameLoop requests the next frame.
Leave(stage) ==
  /\ pc' = StageAfter(stage)
  /\ pendingFrames' = IF StageAfter(stage) = "idle" THEN pendingFrames + 1
                      ELSE pendingFrames
  /\ UNCHANGED dueFrames

EnterGameLoop_Always(running) ==
  /\ deltaTime' = now - lastTime
  /\ lastTime' = now
  /\ pc' = UpdateOrder[1]

\* gameLoop up to the call of update.
EnterGameLoop(running) ==
  /\ IF ~running
     THEN /\ pc' = "idle"
          /\ UNCHANGED <<lastTime, deltaTime>>
     ELSE /\ deltaTime' = now - lastTime
          /\ lastTime' = now
          /\ pc' = UpdateOrder[1]

\* An animation frame begins, once the callbacks of the frame before and the
\* due timers have run: the clock has moved on, and the callbacks requested so
\* far are the ones this frame runs.
Advance ==
  /\ pc = "idle"
  /\ steps < MaxSteps
  /\ dueFrames = 0
  /\ \A i \in 1..Len(timers) : timers[i] > now
  /\ now' = now + TimeStep
  /\ steps' = steps + 1
  /\ dueFrames' = pendingFrames
  /\ pendingFrames' = 0
  /\ UNCHANGED <<storeVars, flowVars, gameVars, lastTime, isRunning,
                 projectileIdCounter, pc, deltaTime, towers, enemies, projectiles,
                 entitiesToRemove, idx>>

\* A frame is dropped: the clock moves on while a callback is still to run.
Lag ==
  /\ pc = "idle"
  /\ steps < MaxSteps
  /\ dueFrames > 0
  /\ \A i \in 1..Len(timers) : timers[i] > now
  /\ now' = now + TimeStep
  /\ steps' = steps + 1
  /\ dueFrames' = dueFrames + pendingFrames
  /\ pendingFrames' = 0
  /\ UNCHANGED <<storeVars, flowVars, gameVars, lastTime, isRunning,
                 projectileIdCounter, pc, deltaTime, towers, enemies, projectiles,
                 entitiesToRemove, idx>>

\* A requestAnimationFrame callback runs gameLoop.
Frame ==
  /\ pc = "idle"
  /\ dueFrames > 0
  /\ dueFrames' = dueFrames - 1
  /\ EnterGameLoop(isRunning)
  /\ UNCHANGED <<storeVars, flowVars, gameVars, now, isRunning, pendingFrames,
                 projectileIdCounter, towers, enemies, projectiles, entitiesToRemove,
                 idx, steps>>

MovementStage ==
  /\ pc = "movement"
  /\ entityManager' = MovementSystem_update(entityManager, flowField, deltaTime)
  /\ Leave("movement")
  /\ UNCHANGED <<lastOp, queried, returned, flowVars, gameVars, now, lastTime, isRunning,
                 projectileIdCounter, deltaTime, towers, enemies, projectiles,
                 entitiesToRemove, idx, steps>>

\* AttackSystem.update, lines 54-55.
AttackBegin ==
  /\ pc = "attack"
  /\ LET q1 == withComponents(entityManager, <<"Position", "Attack", "Targeting", "Timing">>)
         q2 == withComponents(q1.em, <<"Position", "Health">>)
     IN /\ towers' = q1.result
        /\ enemies' = q2.result
        /\ entityManager' = q2.em
  /\ idx' = 1
  /\ pc' = "attackLoop"
  /\ UNCHANGED <<lastOp, queried, returned, flowVars, gameVars, now, lastTime, isRunning,
                 pendingFrames, dueFrames, projectileIdCounter, deltaTime, projectiles,
                 entitiesToRemove, steps>>

\* AttackSystem.update, one iteration of `for (const tower of towers)`.
AttackStep ==
  /\ pc = "attackLoop"
  /\ idx <= Len(towers)
  /\ LET r == AttackWith(entityManager, towers[idx], enemies, now, projectileIdCounter)
     IN /\ entityManager' = r.em
        /\ projectileIdCounter' = r.counter
  /\ idx' = idx + 1
  /\ UNCHANGED <<lastOp, queried, returned, flowVars, gameVars, now, lastTime, isRunning,
                 pendingFrames, dueFrames, pc, deltaTime, towers, enemies, projectiles,
                 entitiesToRemove, steps>>

AttackEnd ==
  /\ pc = "attackLoop"
  /\ idx > Len(towers)
  /\ towers' = <<>>
  /\ enemies' = <<>>
  /\ idx' = 0
  /\ Leave("attack")
  /\ UNCHANGED <<storeVars, flowVars, gameVars, now, lastTime, isRunning,
                 projectileIdCounter, deltaTime, projectiles, entitiesToRemove, steps>>

\* ProjectileSystem.update, lines 562-563.
ProjectileBegin ==
  /\ pc = "projectile"
  /\ LET q == withComponents(entityManager, <<"Position", "Projectile">>)
     IN /\ projectiles' = q.result
        /\ entityManager' = q.em
  /\ entitiesToRemove' = <<>>
  /\ idx' = 1
  /\ pc' = "projectileLoop"
  /\ UNCHANGED <<lastOp, queried, returned, flowVars, gameVars, now, lastTime, isRunning,
                 pendingFrames, dueFrames, projectileIdCounter, deltaTime, towers, enemies, steps>>

\* ProjectileSystem.update, one iteration of `for (const projectile of projectiles)`.
ProjectileStep ==
  /\ pc = "projectileLoop"
  /\ idx <= Len(projectiles)
  /\ LET r == ResolveProjectile(entityManager, projectiles[idx], deltaTime, entitiesToRemove)
     IN /\ entityManager' = r.em
        /\ entitiesToRemove' = r.toRemove
  /\ idx' = idx + 1
  /\ UNCHANGED <<lastOp, queried, returned, flowVars, gameVars, now, lastTime, isRunning,
                 pendingFrames, dueFrames, projectileIdCounter, pc, deltaTime, towers, enemies,
                 projectiles, steps>>

\* ProjectileSystem.update, lines 606-608: the removals.
ProjectileEnd ==
  /\ pc = "projectileLoop"
  /\ idx > Len(projectiles)
  /\ entityManager' = RemoveAll(entityManager, entitiesToRemove)
  /\ projectiles' = <<>>
  /\ entitiesToRemove' = <<>>
  /\ idx' = 0
  /\ Leave("projectile")
  /\ UNCHANGED <<lastOp, queried, returned, flowVars, gameVars, now, lastTime, isRunning,
                 projectileIdCounter, deltaTime, towers, enemies, steps>>

TickNext ==
  \/ Advance
  \/ Lag
  \/ Frame
  \/ MovementStage
  \/ AttackBegin
  \/ AttackStep
  \/ AttackEnd
  \/ ProjectileBegin
  \/ ProjectileStep
  \/ ProjectileEnd

-----------------------------------------------------------------------------
(* The systems on stores built through the EntityManager: the three stages  *)
(* of update run again and again on a store of attackers and targets.       *)

\* An attacker without Health: it is no candidate of findTarget.
createSentry(id, x, y) ==
  addComponent(addComponent(addComponent(addComponent(
    createEntity(id),
    "Position", Vec(x, y)),
    "Attack", [damage |-> 25, range |-> 100, cooldown |-> 1000]),
    "Targeting", [strategy |-> "closest", currentTarget |-> NullId,
                  lastTargetingTime |-> 0]),
    "Timing", [lastAttackTime |-> 0])

\* One attacker at (100, 100), and enemies walking east: one that starts
\* beyond the range and enters it, one that starts at distance exactly 100
\* and comes closer, one that starts inside the range and soon leaves it.
ScenarioAttackers ==
  {createSentry(<<"sentry", 0>>, 100, 100), createBasicTower(<<"tower", 0>>, 100, 100)}

ScenarioEnemies ==
  {createBasicEnemy(<<"enemy", 0>>, -30, 100),
   createBasicEnemy(<<"enemy", 1>>, 40, 180),
   createBasicEnemy(<<"enemy", 2>>, 190, 100)}

RECURSIVE AddAll(_, _)
AddAll(em, entities) ==
  IF entities = <<>> THEN em ELSE AddAll(addEntity(em, Head(entities)), Tail(entities))

\* The sequences of distinct elements of `set`, of length at most n.
RECURSIVE Arrangements(_, _)
Arrangements(set, n) ==
  IF n = 0 THEN {<<>>}
  ELSE {<<>>} \cup
       UNION {{<<e>> \o rest : rest \in Arrangements(set \ {e}, n - 1)} : e \in set}

\* The Game constructor, lines 29-34: the map and its flow field.
GameMap ==
  /\ tileMap = NewTileMap(MapWidth, MapHeight, DefaultSpawn(MapWidth, MapHeight),
                          DefaultGoal(MapWidth, MapHeight))
  /\ flowField = NewFlowField(tileMap, findGoalPoint(tileMap).x, findGoalPoint(tileMap).y)

ScenarioInit ==
  /\ GameMap
  /\ distanceMap = <<>>
  /\ queue = <<>>
  /\ flowPc = "done"
  /\ GameUnused
  /\ \E attacker \in ScenarioAttackers, others \in Arrangements(ScenarioEnemies, MaxScenario - 1),
        k \in 0..(MaxScenario - 1) :
       /\ k <= Len(others)
       /\ entityManager =
            AddAll(EmptyManager,
                   SubSeq(others, 1, k) \o <<attacker>> \o SubSeq(others, k + 1, Len(others)))
  /\ lastOp = "new"
  /\ queried = <<>>
  /\ returned = <<>>
  /\ now = StartTime
  /\ lastTime = StartTime
  /\ isRunning = TRUE
  /\ pendingFrames = 0
  /\ dueFrames = 1
  /\ projectileIdCounter = 0
  /\ pc = "idle"
  /\ deltaTime = 0
  /\ towers = <<>>
  /\ enemies = <<>>
  /\ projectiles = <<>>
  /\ entitiesToRemove = <<>>
  /\ idx = 0
  /\ steps = 0

SpecTick == ScenarioInit /\ [][TickNext]_vars

-----------------------------------------------------------------------------
(* Game.ts: the handlers of the buttons, of the canvas and of the timers *)

\* The side of a tile in world units.
TileSize == 40

\* spawnWave: enemyCount enemies, one every WaveInterval ms.
EnemyCount == 5

WaveInterval == 1000

TowerId(n) == <<"tower", n>>

EnemyId(n) == <<"enemy", n>>

\* The first of `ids` closer than half a tile to (x, y), or NullId.
RECURSIVE FirstNear(_, _, _, _)
FirstNear(em, ids, x, y) ==
  IF ids = <<>> THEN NullId
  ELSE IF 4 * DistanceSq(getComponent(em, Head(ids), "Position"), Vec(x, y))
            < TileSize * TileSize
       THEN Head(ids)
       ELSE FirstNear(em, Tail(ids), x, y)

\* Game.findTowerAt: the manager after the query, and the tower found.
findTowerAt(em, x, y) ==
  LET q == withComponents(em, <<"Position", "Attack">>)
  IN [em |-> q.em, tower |-> FirstNear(q.em, q.result, x, y)]

placeTower_OnAnyTile(em, tm, counter, placing, tileX, tileY) ==
  LET worldX == tileX * TileSize
      worldY == tileY * TileSize
      found == findTowerAt(em, worldX, worldY)
  IN IF found.tower # NullId
     THEN [em |-> found.em, towerIdCounter |-> counter, placingTower |-> placing]
     ELSE [em |-> addEntity(found.em, createBasicTower(TowerId(counter), worldX, worldY)),
           towerIdCounter |-> counter + 1,
           placingTower |-> FALSE]

\* Game.placeTower: the manager, towerIdCounter and placingTower afterwards.
placeTower(em, tm, counter, placing, tileX, tileY) ==
  LET worldX == tileX * TileSize
      worldY == tileY * TileSize
      found == findTowerAt(em, worldX, worldY)
  IN IF ~isBuildable(tm, tileX, tileY)
     THEN [em |-> em, towerIdCounter |-> counter, placingTower |-> placing]
     ELSE IF found.tower # NullId
          THEN [em |-> found.em, towerIdCounter |-> counter, placingTower |-> placing]
          ELSE [em |-> addEntity(found.em, createBasicTower(TowerId(counter), worldX, worldY)),
                towerIdCounter |-> counter + 1,
                placingTower |-> FALSE]

\* Game.removeTower: the manager and removingTower afterwards.
removeTower(em, removing, tileX, tileY) ==
  LET found == findTowerAt(em, tileX * TileSize, tileY * TileSize)
  IN IF found.tower # NullId
     THEN [em |-> removeEntity(found.em, found.tower), removingTower |-> FALSE]
     ELSE [em |-> found.em, removingTower |-> removing]

\* The tiles the player clicks: two buildable ones next to the enemies' way,
\* the spawn tile, which is not buildable, and one left of the map.
ClickTiles == {<<2, 7>>, <<3, 7>>, <<0, 7>>, <<-1, 7>>}

\* new Game(container)
Init ==
  /\ entityManager = EmptyManager
  /\ lastOp = "new"
  /\ queried = <<>>
  /\ returned = <<>>
  /\ GameMap
  /\ distanceMap = <<>>
  /\ queue = <<>>
  /\ flowPc = "done"
  /\ TickUnused
  /\ GameUnused

\* Game.start: lastTime is read, then gameLoop runs.
Start ==
  /\ pc = "idle"
  /\ inputs < MaxInputs
  /\ inputs' = inputs + 1
  /\ UNCHANGED tileUI
  /\ isRunning' = TRUE
  /\ lastTime' = now
  /\ deltaTime' = 0
  /\ pc' = UpdateOrder[1]
  /\ UNCHANGED <<storeVars, flowVars, timers, enemyIdCounter, towerIdCounter, placingTower,
                 removingTower, now, pendingFrames, dueFrames, projectileIdCounter,
                 towers, enemies, projectiles, entitiesToRemove, idx, steps>>

\* Game.stop
Stop ==
  /\ pc = "idle"
  /\ inputs < MaxInputs
  /\ inputs' = inputs + 1
  /\ UNCHANGED tileUI
  /\ isRunning' = FALSE
  /\ UNCHANGED <<storeVars, flowVars, timers, enemyIdCounter, towerIdCounter, placingTower,
                 removingTower, now, lastTime, pendingFrames, dueFrames,
                 projectileIdCounter, pc, deltaTime, towers, enemies, projectiles,
                 entitiesToRemove, idx, steps>>

\* The click listener of place-tower-btn.
ClickPlaceTower ==
  /\ pc = "idle"
  /\ inputs < MaxInputs
  /\ inputs' = inputs + 1
  /\ UNCHANGED tileUI
  /\ placingTower' = ~placingTower
  /\ removingTower' = FALSE
  /\ UNCHANGED <<storeVars, flowVars, tickVars, timers, enemyIdCounter, towerIdCounter>>

\* The click listener of remove-tower-btn.
ClickRemoveTower ==
  /\ pc = "idle"
  /\ inputs < MaxInputs
  /\ inputs' = inputs + 1
  /\ UNCHANGED tileUI
  /\ removingTower' = ~removingTower
  /\ placingTower' = FALSE
  /\ UNCHANGED <<storeVars, flowVars, tickVars, timers, enemyIdCounter, towerIdCounter>>

\* Game.handleCanvasClick on a tile.
CanvasClick ==
  /\ pc = "idle"
  /\ inputs < MaxInputs
  /\ inputs' = inputs + 1
  /\ UNCHANGED tileUI
  /\ \E tile \in ClickTiles :
       IF placingTower
       THEN LET r == placeTower(entityManager, tileMap, towerIdCounter, placingTower,
                                tile[1], tile[2])
            IN /\ entityManager' = r.em
               /\ towerIdCounter' = r.towerIdCounter
               /\ placingTower' = r.placingTower
               /\ UNCHANGED removingTower
       ELSE IF removingTower
            THEN LET r == removeTower(entityManager, removingTower, tile[1], tile[2])
                 IN /\ entityManager' = r.em
                    /\ removingTower' = r.removingTower
                    /\ UNCHANGED <<towerIdCounter, placingTower>>
            ELSE UNCHANGED <<entityManager, towerIdCounter, placingTower, removingTower>>
  /\ UNCHANGED <<lastOp, queried, returned, flowVars, tickVars, timers, enemyIdCounter>>

\* The click listener of start-wave-btn: Game.spawnWave sets its timers.
SpawnWave ==
  /\ pc = "idle"
  /\ inputs < MaxInputs
  /\ inputs' = inputs + 1
  /\ UNCHANGED tileUI
  /\ IF findSpawnPoint(tileMap) = NullVector
     THEN UNCHANGED timers
     ELSE timers' = timers \o [i \in 1..EnemyCount |-> now + (i - 1) * WaveInterval]
  /\ UNCHANGED <<storeVars, flowVars, tickVars, enemyIdCounter, towerIdCounter,
                 placingTower, removingTower>>

\* The timer that is due and was due first.
DueTimer ==
  CHOOSE i \in 1..Len(timers) :
    /\ timers[i] <= now
    /\ \A j \in 1..Len(timers) :
         timers[j] <= now => (timers[i] < timers[j] \/ (timers[i] = timers[j] /\ i <= j))

SpawnEnemy_OnlyWhileRunning ==
  /\ pc = "idle"
  /\ \E i \in 1..Len(timers) : timers[i] <= now
  /\ LET spawn == findSpawnPoint(tileMap)
     IN entityManager' =
          IF isRunning
          THEN addEntity(entityManager,
                         createBasicEnemy(EnemyId(enemyIdCounter),
                                          spawn.x * TileSize, spawn.y * TileSize))
          ELSE entityManager
  /\ enemyIdCounter' = IF isRunning THEN enemyIdCounter + 1 ELSE enemyIdCounter
  /\ timers' = [k \in 1..(Len(timers) - 1) |->
                  IF k < DueTimer THEN timers[k] ELSE timers[k + 1]]
  /\ UNCHANGED <<lastOp, queried, returned, flowVars, tickVars, towerIdCounter,
                 placingTower, removingTower, inputs, tileUI>>

\* A setTimeout callback of spawnWave runs.
SpawnEnemy ==
  /\ pc = "idle"
  /\ \E i \in 1..Len(timers) : timers[i] <= now
  /\ LET spawn == findSpawnPoint(tileMap)
     IN entityManager' =
          addEntity(entityManager,
                    createBasicEnemy(EnemyId(enemyIdCounter),
                                     spawn.x * TileSize, spawn.y * TileSize))
  /\ enemyIdCounter' = enemyIdCounter + 1
  /\ timers' = [k \in 1..(Len(timers) - 1) |->
                  IF k < DueTimer THEN timers[k] ELSE timers[k + 1]]
  /\ UNCHANGED <<lastOp, queried, returned, flowVars, tickVars, towerIdCounter,
                 placingTower, removingTower, inputs, tileUI>>

Next ==
  \/ Start
  \/ Stop
  \/ ClickPlaceTower
  \/ ClickRemoveTower
  \/ CanvasClick
  \/ SpawnWave
  \/ SpawnEnemy
  \/ Advance
  \/ Frame
  \/ MovementStage
  \/ AttackBegin
  \/ AttackStep
  \/ AttackEnd
  \/ ProjectileBegin
  \/ ProjectileStep
  \/ ProjectileEnd

Spec == Init /\ [][Next]_vars

-----------------------------------------------------------------------------
(* The Attack stage, one attacker at a time *)

\* The Attack stage is about to run the loop body for towers[idx].
Attacking == pc = "attackLoop" /\ idx <= Len(towers)

StoredIds(em) == {em.entities[i].id : i \in 1..Len(em.entities)}

\* The entities findTarget may choose: those with Position and Health.
Candidates(em) ==
  {id \in StoredIds(em) :
     hasComponent(getEntity(em, id), "Position") /\ hasComponent(getEntity(em, id), "Health")}

DistanceSqBetween(em, a, b) ==
  DistanceSq(getComponent(em, a, "Position"), getComponent(em, b, "Position"))

RangeSq(em, a) == getComponent(em, a, "Attack").range * getComponent(em, a, "Attack").range

Elapsed(em, a) == now - getComponent(em, a, "Timing").lastAttackTime

Cooling(em, a) == Elapsed(em, a) < getComponent(em, a, "Attack").cooldown

\* The loop body neither inserted nor removed an entity.
NothingInserted ==
  /\ projectileIdCounter' = projectileIdCounter
  /\ StoredIds(entityManager') = StoredIds(entityManager)
  /\ Len(entityManager'.entities) = Len(entityManager.entities)

\* C6: an attacker whose cooldown has not elapsed is skipped: the loop body
\* inserts nothing and leaves its Timing and Targeting as they are; a Timing
\* changes only when its attacker fires, at least cooldown after the time it
\* held, and then holds the current time.
C6_CooldownRespected ==
  [][/\ (Attacking /\ Cooling(entityManager, towers[idx])) =>
          /\ NothingInserted
          /\ getComponent(entityManager', towers[idx], "Timing")
               = getComponent(entityManager, towers[idx], "Timing")
          /\ getComponent(entityManager', towers[idx], "Targeting")
               = getComponent(entityManager, towers[idx], "Targeting")
     /\ \A a \in StoredIds(entityManager) \cap StoredIds(entityManager') :
          (/\ hasComponent(getEntity(entityManager, a), "Timing")
           /\ getComponent(entityManager', a, "Timing")
                # getComponent(entityManager, a, "Timing")) =>
             /\ Attacking
             /\ a = towers[idx]
             /\ projectileIdCounter' = projectileIdCounter + 1
             /\ Elapsed(entityManager, a) >= getComponent(entityManager, a, "Attack").cooldown
             /\ getComponent(entityManager', a, "Timing").lastAttackTime = now
    ]_vars

\* The attacker has fired once and has just been skipped, half a cooldown later.
C6_Witness ==
  /\ pc = "attackLoop"
  /\ idx = 2
  /\ projectileIdCounter = 1
  /\ Elapsed(entityManager, towers[1]) > 0
  /\ Cooling(entityManager, towers[1])

\* C7: an attacker off cooldown with no candidate within its range keeps its
\* lastAttackTime, has no current target afterwards and inserts nothing; an
\* attacker off cooldown with a candidate closer than its range fires.
C7_MissKeepsTiming ==
  [][(Attacking /\ ~Cooling(entityManager, towers[idx])) =>
       /\ (\A c \in Candidates(entityManager) :
             DistanceSqBetween(entityManager, towers[idx], c)
               > RangeSq(entityManager, towers[idx])) =>
            /\ NothingInserted
            /\ getComponent(entityManager', towers[idx], "Timing")
                 = getComponent(entityManager, towers[idx], "Timing")
            /\ getComponent(entityManager', towers[idx], "Targeting").currentTarget = NullId
       /\ (\E c \in Candidates(entityManager) :
             DistanceSqBetween(entityManager, towers[idx], c)
               < RangeSq(entityManager, towers[idx])) =>
            /\ projectileIdCounter' = projectileIdCounter + 1
            /\ getComponent(entityManager', towers[idx], "Timing").lastAttackTime = now
    ]_vars

\* An attacker that fired earlier has just missed: it is off cooldown, no
\* candidate is in range, its target is reset and its lastAttackTime is the
\* time of its shot.
C7_Witness ==
  /\ pc = "attackLoop"
  /\ idx = 2
  /\ projectileIdCounter = 1
  /\ ~Cooling(entityManager, towers[1])
  /\ getComponent(entityManager, towers[1], "Timing").lastAttackTime >= StartTime
  /\ Candidates(entityManager) # {}
  /\ \A c \in Candidates(entityManager) :
       DistanceSqBetween(entityManager, towers[1], c) > RangeSq(entityManager, towers[1])
  /\ getComponent(entityManager, towers[1], "Targeting").currentTarget = NullId

\* The loop body for towers[idx] fires: the attacker is off cooldown and a
\* candidate is within its range.
Firing ==
  /\ Attacking
  /\ ~Cooling(entityManager, towers[idx])
  /\ \E c \in Candidates(entityManager) :
       DistanceSqBetween(entityManager, towers[idx], c) <= RangeSq(entityManager, towers[idx])

\* The entity the step inserted.
Inserted == CHOOSE id \in StoredIds(entityManager') \ StoredIds(entityManager) : TRUE

\* C8: a successful attack records a candidate as currentTarget, stamps
\* lastAttackTime with the current time and inserts exactly one entity, a
\* projectile at the attacker's position, bound to the recorded target and
\* carrying the attacker's damage; every other entity stays as it was.
C8_OneProjectilePerAttack ==
  [][Firing =>
       LET attacker == towers[idx]
           target == getComponent(entityManager', attacker, "Targeting").currentTarget
       IN /\ target \in Candidates(entityManager)
          /\ getComponent(entityManager', attacker, "Timing").lastAttackTime = now
          /\ Len(entityManager'.entities) = Len(entityManager.entities) + 1
          /\ Cardinality(StoredIds(entityManager') \ StoredIds(entityManager)) = 1
          /\ StoredIds(entityManager) \subseteq StoredIds(entityManager')
          /\ hasComponent(getEntity(entityManager', Inserted), "Projectile")
          /\ getComponent(entityManager', Inserted, "Position")
               = getComponent(entityManager, attacker, "Position")
          /\ getComponent(entityManager', Inserted, "Projectile").targetId = target
          /\ getComponent(entityManager', Inserted, "Projectile").damage
               = getComponent(entityManager, attacker, "Attack").damage
          /\ \A id \in StoredIds(entityManager) \ {attacker} :
               getEntity(entityManager', id) = getEntity(entityManager, id)
    ]_vars

\* A sentry has just fired at an enemy: the projectile is at its position and
\* is bound to the enemy.
C8_Witness ==
  /\ pc = "attackLoop"
  /\ idx = 2
  /\ ~hasComponent(getEntity(entityManager, towers[1]), "Health")
  /\ getComponent(entityManager, towers[1], "Timing").lastAttackTime = now
  /\ \E p \in StoredIds(entityManager) :
       /\ hasComponent(getEntity(entityManager, p), "Projectile")
       /\ getComponent(entityManager, p, "Position")
            = getComponent(entityManager, towers[1], "Position")
       /\ getComponent(entityManager, p, "Projectile").targetId
            = getComponent(entityManager, towers[1], "Targeting").currentTarget
       /\ getComponent(entityManager, p, "Projectile").targetId \in Candidates(entityManager)

\* C10 as stated: the target an attack records is closer than the range.
C10_Original ==
  [][Firing =>
       DistanceSqBetween(entityManager, towers[idx],
                         getComponent(entityManager', towers[idx], "Targeting").currentTarget)
         < RangeSq(entityManager, towers[idx])
    ]_vars

\* C10: the target an attack records is never farther than the range, and a
\* candidate at distance exactly the range is chosen when no candidate is closer.
C10_WithinRangeInclusive ==
  [][Firing =>
       LET attacker == towers[idx]
           target == getComponent(entityManager', attacker, "Targeting").currentTarget
           nearest == {c \in Candidates(entityManager) :
                         \A d \in Candidates(entityManager) :
                           DistanceSqBetween(entityManager, attacker, c)
                             <= DistanceSqBetween(entityManager, attacker, d)}
       IN /\ target \in Candidates(entityManager)
          /\ DistanceSqBetween(entityManager, attacker, target)
               <= RangeSq(entityManager, attacker)
          /\ (\A c \in nearest :
                DistanceSqBetween(entityManager, attacker, c)
                  = RangeSq(entityManager, attacker)) =>
               /\ target \in nearest
               /\ projectileIdCounter' = projectileIdCounter + 1
    ]_vars

\* A sentry has just fired at an enemy whose distance is exactly its range.
C10_Witness ==
  /\ pc = "attackLoop"
  /\ idx = 2
  /\ ~hasComponent(getEntity(entityManager, towers[1]), "Health")
  /\ getComponent(entityManager, towers[1], "Timing").lastAttackTime = now
  /\ getComponent(entityManager, towers[1], "Targeting").currentTarget
       \in Candidates(entityManager)
  /\ DistanceSqBetween(entityManager, towers[1],
                       getComponent(entityManager, towers[1], "Targeting").currentTarget)
       = RangeSq(entityManager, towers[1])

-----------------------------------------------------------------------------
(* The tick of the game *)

\* The system of Game.update that is running, or "idle" between two ticks.
StageOf(p) ==
  IF p = "attackLoop" THEN "attack"
  ELSE IF p = "projectileLoop" THEN "projectile"
  ELSE p

\* C2: a tick begins with the Movement stage; the Movement stage is followed
\* by the Attack stage, the Attack stage by the Projectile-Resolution stage,
\* and that one ends the tick; while a tick runs the clock and the handlers
\* stand still, projectiles are created by the Attack stage only and the
\* removal list is filled by the Projectile-Resolution stage only.
C2_StageOrder ==
  [][/\ (StageOf(pc) = "idle" /\ pc' # pc) => pc' = "movement"
     /\ StageOf(pc) = "movement" => pc' = "attack"
     /\ StageOf(pc) = "attack" => (StageOf(pc') = "attack" \/ pc' = "projectile")
     /\ StageOf(pc) = "projectile" => (StageOf(pc') = "projectile" \/ pc' = "idle")
     /\ StageOf(pc) # "idle" => (now' = now /\ UNCHANGED gameVars)
     /\ projectileIdCounter' # projectileIdCounter => StageOf(pc) = "attack"
     /\ (entitiesToRemove' # entitiesToRemove \/ projectiles' # projectiles) =>
          StageOf(pc) = "projectile"
     /\ (StoredIds(entityManager') # StoredIds(entityManager) /\ StageOf(pc) # "idle") =>
          \/ StageOf(pc) = "attack" /\ projectileIdCounter' # projectileIdCounter
          \/ pc = "projectileLoop" /\ pc' = "idle"
    ]_vars

\* In one tick with elapsed time, the Attack stage has created a projectile
\* and the Projectile-Resolution stage has just processed it.
C2_Witness ==
  /\ pc = "projectileLoop"
  /\ deltaTime > 0
  /\ idx = 2
  /\ Len(projectiles) = 1
  /\ getComponent(entityManager, projectiles[1], "Projectile").lifetime
       = 3000 - deltaTime
  /\ \E t \in StoredIds(entityManager) :
       /\ hasComponent(getEntity(entityManager, t), "Timing")
       /\ getComponent(entityManager, t, "Timing").lastAttackTime = now

\* The enemies of the game: the entities spawnWave creates.
EnemiesInRange(em, a) ==
  {e \in StoredIds(em) :
     /\ e[1] = "enemy"
     /\ DistanceSqBetween(em, a, e) < RangeSq(em, a)}

\* C9 as stated: a placed tower off cooldown with exactly one enemy within its
\* range inserts, in the Attack stage of the tick, a projectile bound to that
\* enemy and carrying the tower's damage.
C9_TowerFiresAtEnemy ==
  [][(/\ Attacking
      /\ towers[idx][1] = "tower"
      /\ ~Cooling(entityManager, towers[idx])
      /\ Cardinality(EnemiesInRange(entityManager, towers[idx])) = 1) =>
       \E p \in StoredIds(entityManager') \ StoredIds(entityManager) :
         /\ hasComponent(getEntity(entityManager', p), "Projectile")
         /\ getComponent(entityManager', p, "Projectile").targetId
              \in EnemiesInRange(entityManager, towers[idx])
         /\ getComponent(entityManager', p, "Projectile").damage
              = getComponent(entityManager, towers[idx], "Attack").damage
    ]_vars

-----------------------------------------------------------------------------
(* Combat: the tick loop on stores where projectiles fly, hit, lose their   *)
(* target and expire.  The clock goes on for as long as a projectile is in  *)
(* the store.                                                               *)

\* The frames after which the clock stops although a projectile is left.
MaxFlight == 30

Sentry(n, x, y) == createSentry(<<"sentry", n>>, x, y)

Enemy(n, x, y) == createBasicEnemy(EnemyId(n), x, y)

\* A sentry assembled without its Timing component.
Untimed(n, x, y) ==
  addComponent(addComponent(addComponent(
    createEntity(<<"untimed", n>>),
    "Position", Vec(x, y)),
    "Attack", [damage |-> 25, range |-> 100, cooldown |-> 1000]),
    "Targeting", [strategy |-> "closest", currentTarget |-> NullId,
                  lastTargetingTime |-> 0])

\* An enemy assembled without its Position component.
Ghost(n) ==
  addComponent(addComponent(
    createEntity(<<"ghost", n>>),
    "Movement", [baseSpeed |-> 30, currentSpeed |-> 30, direction |-> Vec(Unit, 0)]),
    "Health", [current |-> 50, maximum |-> 50])

\* The entities of a store, inserted in any order:
\*  - two enemies at the same distance from a sentry, and a third farther off;
\*  - three sentries within the arrival threshold of one enemy, a fourth
\*    sentry far from it;
\*  - a sentry and an enemy that walks away from it;
\*  - a sentry and an enemy that walks into its range;
\*  - a sentry and an enemy at distance 5 from it;
\*  - two sentries within the arrival threshold of one enemy;
\*  - a basic tower and an enemy within its range;
\*  - enemies on the tiles of the flow field, one of them on the goal tile;
\*  - a sentry, a sentry without Timing and an enemy within the range of both;
\*  - a sentry without Timing, an enemy without Position and an enemy.
CombatScenarios ==
  {{Sentry(0, 100, 100), Enemy(0, 190, 100), Enemy(1, 10, 100), Enemy(2, 100, 195)},
   {Sentry(0, 100, 100), Sentry(1, 102, 100), Sentry(2, 100, 102), Sentry(3, 101, 190),
    Enemy(0, 101, 101)},
   {Sentry(0, 100, 100), Enemy(0, 110, 100)},
   {Sentry(0, 100, 100), Enemy(0, -30, 100)},
   {Sentry(0, 100, 100), Enemy(0, 103, 104)},
   {Sentry(0, 100, 100), Sentry(1, 102, 100), Enemy(0, 101, 101)},
   {createBasicTower(TowerId(0), 100, 100), Enemy(0, 40, 180)},
   {Sentry(0, 100, 100), Enemy(0, 5, 7), Enemy(1, 19, 7), Enemy(2, 5, 3)},
   {Sentry(0, 100, 100), Untimed(0, 105, 100), Enemy(0, 110, 100)},
   {Untimed(0, 100, 100), Ghost(0), Enemy(0, 110, 100)}}

\* The orders in which the elements of `set` can be inserted.
Orders(set) == {s \in Arrangements(set, Cardinality(set)) : Len(s) = Cardinality(set)}

CombatInit ==
  /\ GameMap
  /\ distanceMap = <<>>
  /\ queue = <<>>
  /\ flowPc = "done"
  /\ GameUnused
  /\ \E scenario \in CombatScenarios :
       \E order \in Orders(scenario) : entityManager = AddAll(EmptyManager, order)
  /\ lastOp = "new"
  /\ queried = <<>>
  /\ returned = <<>>
  /\ now = StartTime
  /\ lastTime = StartTime
  /\ isRunning = TRUE
  /\ pendingFrames = 0
  /\ dueFrames = 1
  /\ projectileIdCounter = 0
  /\ pc = "idle"
  /\ deltaTime = 0
  /\ towers = <<>>
  /\ enemies = <<>>
  /\ projectiles = <<>>
  /\ entitiesToRemove = <<>>
  /\ idx = 0
  /\ steps = 0

\* The projectiles of the store.
InFlight(em) ==
  {id \in StoredIds(em) : hasComponent(getEntity(em, id), "Projectile")}

\* An animation frame begins, as in Advance; the frames go on after MaxSteps
\* while a projectile is in the store.
CombatAdvance ==
  /\ pc = "idle"
  /\ steps < MaxFlight
  /\ steps < MaxSteps \/ InFlight(entityManager) # {}
  /\ dueFrames = 0
  /\ now' = now + TimeStep
  /\ steps' = steps + 1
  /\ dueFrames' = pendingFrames
  /\ pendingFrames' = 0
  /\ UNCHANGED <<storeVars, flowVars, gameVars, lastTime, isRunning,
                 projectileIdCounter, pc, deltaTime, towers, enemies, projectiles,
                 entitiesToRemove, idx>>

CombatNext ==
  \/ CombatAdvance
  \/ Frame
  \/ MovementStage
  \/ AttackBegin
  \/ AttackStep
  \/ AttackEnd
  \/ ProjectileBegin
  \/ ProjectileStep
  \/ ProjectileEnd

\* A step of update: a system begins, handles the next entity of its list or
\* ends.
UpdateStep ==
  /\ pc # "idle"
  /\ pc' \in {"idle", "movement", "attack", "attackLoop", "projectile", "projectileLoop"}
  /\ idx' \in {0, 1, idx + 1}

\* The host lets the clock go on and runs every requested frame callback, and
\* a callback runs to completion: update, once called, takes its next step
\* until the last system has returned.
SpecCombat ==
  /\ CombatInit
  /\ [][CombatNext]_vars
  /\ WF_vars(CombatAdvance)
  /\ WF_vars(Frame)
  /\ WF_<<pc, idx>>(UpdateStep)

\* The clock never stops with a projectile left in the store.
FlightEnds == (pc = "idle" /\ dueFrames = 0 /\ steps = MaxFlight) => InFlight(entityManager) = {}

-----------------------------------------------------------------------------
(* findTarget *)

\* The place of x in the list s.
RankIn(s, x) == CHOOSE i \in 1..Len(s) : s[i] = x

\* The candidates within the range of attacker a.
WithinRange(em, a) ==
  {c \in Candidates(em) : DistanceSqBetween(em, a, c) <= RangeSq(em, a)}

\* Those of them no other is nearer than.
Nearest(em, a) ==
  {c \in WithinRange(em, a) :
     \A d \in WithinRange(em, a) : DistanceSqBetween(em, a, c) <= DistanceSqBetween(em, a, d)}

\* C11: an attacker off cooldown records as its target a candidate within
\* range that no other candidate within range is nearer than, among several
\* such the one that comes first in the list the Position+Health query
\* returned; it records no target exactly when no candidate is within range.
C11_NearestFirstFound ==
  [][(Attacking /\ ~Cooling(entityManager, towers[idx])) =>
       LET a == towers[idx]
           found == getComponent(entityManager', a, "Targeting").currentTarget
       IN /\ (found = NullId) <=> (WithinRange(entityManager, a) = {})
          /\ WithinRange(entityManager, a) # {} =>
               /\ found \in Nearest(entityManager, a)
               /\ \A d \in Nearest(entityManager, a) :
                    RankIn(enemies, found) <= RankIn(enemies, d)]_vars

\* C11 witness: the attacker before towers[idx] has fired at the first of two
\* candidates at the same, least distance, a third candidate being farther off.
C11_Witness ==
  /\ pc = "attackLoop"
  /\ idx > 1
  /\ LET a == towers[idx - 1]
         found == getComponent(entityManager, a, "Targeting").currentTarget
     IN /\ found \in Candidates(entityManager)
        /\ getComponent(entityManager, a, "Timing").lastAttackTime = now
        /\ \E d \in Nearest(entityManager, a) \ {found} :
             /\ DistanceSqBetween(entityManager, a, d) = DistanceSqBetween(entityManager, a, found)
             /\ RankIn(enemies, found) < RankIn(enemies, d)
        /\ WithinRange(entityManager, a) \ Nearest(entityManager, a) # {}

-----------------------------------------------------------------------------
(* The Projectile-Resolution stage, one projectile at a time *)

\* The stage is about to run the loop body for projectiles[idx].
Resolving == pc = "projectileLoop" /\ idx <= Len(projectiles)

\* The number of times x occurs in the list s.
Occurrences(s, x) == Cardinality({i \in 1..Len(s) : s[i] = x})

TargetOf(em, p) == getComponent(em, p, "Projectile").targetId

HealthOf(em, id) == getComponent(em, id, "Health").current

\* The ids with a Health component.
Living(em) == {id \in StoredIds(em) : hasComponent(getEntity(em, id), "Health")}

\* The loop body changed the health of some entity.
DamageApplied ==
  \E id \in Living(entityManager) : HealthOf(entityManager', id) # HealthOf(entityManager, id)

\* The ids projectiles can have in the runs explored.
ProjectileIds == {ProjectileId(n) : n \in 0..MaxFlight}

LifetimeOf(em, p) == getComponent(em, p, "Projectile").lifetime

\* C12: while frames with positive elapsed time go on, every projectile in
\* the store is removed from it at last: no projectile is in the store for
\* ever.  The lifetime of a projectile in the store is positive between two
\* stages and every stage takes the elapsed time off it.  A projectile is
\* marked for removal, once, exactly when its lifetime has run out, its
\* target is not in the store or its damage was applied, damage being applied
\* only when neither of the first two is the case; and a projectile leaves the
\* store only at the end of a stage that marked it.
C12_ProjectilesEnd ==
  /\ \A p \in ProjectileIds : []<>(p \notin InFlight(entityManager))
  /\ [](InFlight(entityManager) \subseteq ProjectileIds /\ FlightEnds)
  /\ [](pc # "projectileLoop" =>
          \A p \in InFlight(entityManager) : LifetimeOf(entityManager, p) > 0)
  /\ [][Resolving =>
          LifetimeOf(entityManager', projectiles[idx]) =
            LifetimeOf(entityManager, projectiles[idx]) - deltaTime]_vars
  /\ [][Resolving =>
          LET p == projectiles[idx]
              expired == LifetimeOf(entityManager', p) <= 0
              lost == TargetOf(entityManager, p) \notin StoredIds(entityManager)
          IN /\ Occurrences(entitiesToRemove', p) =
                  IF expired \/ lost \/ DamageApplied THEN 1 ELSE 0
             /\ DamageApplied => ~expired /\ ~lost]_vars
  /\ [][\A p \in InFlight(entityManager) \ InFlight(entityManager') :
          /\ pc = "projectileLoop" /\ idx > Len(projectiles)
          /\ Occurrences(entitiesToRemove, p) = 1]_vars

\* C12 witness: a stage ends that has marked a projectile whose lifetime ran
\* out in flight, its target still in the store, and the clock has not stopped.
C12_Witness ==
  /\ pc = "projectileLoop"
  /\ idx > Len(projectiles)
  /\ steps < MaxFlight
  /\ \E p \in InFlight(entityManager) :
       /\ Occurrences(entitiesToRemove, p) = 1
       /\ LifetimeOf(entityManager, p) <= 0
       /\ TargetOf(entityManager, p) \in StoredIds(entityManager)

\* C13: once the health of an entity is 0 or below, no step changes it: a
\* projectile bound to that entity applies no damage to it, in the same scan
\* or in a later tick.
C13_NoDamageAfterDeath ==
  [][\A t \in Living(entityManager) :
       (HealthOf(entityManager, t) <= 0 /\ t \in StoredIds(entityManager')) =>
         HealthOf(entityManager', t) = HealthOf(entityManager, t)]_vars

\* The ids of the store in the order of insertion.
StoredOrder(em) == [i \in 1..Len(em.entities) |-> em.entities[i].id]

\* C14: while the scan runs no entity leaves or enters the store and the list
\* scanned stays as the query returned it; the loop body handles the
\* projectiles of that list one after the other, each once: it takes the
\* elapsed time off the lifetime of projectiles[idx] and of no other projectile;
\* the entities marked are removed after the last projectile, and no other.
C14_RemovalsAfterScan ==
  /\ [][Resolving =>
          /\ StoredOrder(entityManager') = StoredOrder(entityManager)
          /\ projectiles' = projectiles
          /\ idx' = idx + 1
          /\ pc' = pc
          /\ LifetimeOf(entityManager', projectiles[idx]) =
               LifetimeOf(entityManager, projectiles[idx]) - deltaTime
          /\ \A q \in InFlight(entityManager) \ {projectiles[idx]} :
               LifetimeOf(entityManager', q) = LifetimeOf(entityManager, q)]_vars
  /\ [][pc = "projectile" =>
          /\ Range(projectiles') = InFlight(entityManager)
          /\ Len(projectiles') = Cardinality(InFlight(entityManager))
          /\ idx' = 1
          /\ entitiesToRemove' = <<>>
          /\ StoredOrder(entityManager') = StoredOrder(entityManager)]_vars
  /\ [][(pc = "projectileLoop" /\ idx > Len(projectiles)) =>
          StoredIds(entityManager') = StoredIds(entityManager) \ Range(entitiesToRemove)]_vars

\* C14 witness: the scan has marked a target whose health it brought to 0, the
\* target is still in the store and a projectile of the list is still to be
\* handled.
C14_Witness ==
  /\ Resolving
  /\ Len(projectiles) >= 2
  /\ \E t \in Living(entityManager) :
       /\ HealthOf(entityManager, t) <= 0
       /\ Occurrences(entitiesToRemove, t) >= 1

\* The loop body is about to handle projectile p, which has lifetime left
\* after the elapsed time and whose target is in the store.
Arriving(p) ==
  /\ Resolving
  /\ p = projectiles[idx]
  /\ LifetimeOf(entityManager, p) - deltaTime > 0
  /\ TargetOf(entityManager, p) \in StoredIds(entityManager)

\* C15: a projectile with lifetime left whose target is in the store less
\* than 5 away takes its damage off the target's current health and is marked
\* for removal, and the target is marked if and only if its health is then 0
\* or below; at distance 5 or more no health changes and nothing is marked.
\* The stage ends by removing what was marked and nothing else.
C15_ArrivalDamage ==
  /\ [][\A p \in InFlight(entityManager) : Arriving(p) =>
          LET t == TargetOf(entityManager, p)
              damage == getComponent(entityManager, p, "Projectile").damage
          IN IF DistanceSqBetween(entityManager, p, t) < 5 * 5
             THEN /\ HealthOf(entityManager', t) = HealthOf(entityManager, t) - damage
                  /\ \A o \in Living(entityManager) \ {t} :
                       HealthOf(entityManager', o) = HealthOf(entityManager, o)
                  /\ Occurrences(entitiesToRemove', p) = 1
                  /\ Occurrences(entitiesToRemove', t) =
                       Occurrences(entitiesToRemove, t) +
                         (IF HealthOf(entityManager', t) <= 0 THEN 1 ELSE 0)
             ELSE /\ ~DamageApplied
                  /\ entitiesToRemove' = entitiesToRemove]_vars
  /\ [][(pc = "projectileLoop" /\ idx > Len(projectiles)) =>
          \A id \in StoredIds(entityManager) :
            id \in StoredIds(entityManager') <=> Occurrences(entitiesToRemove, id) = 0]_vars

\* C15 witness: the projectile before projectiles[idx] has hit a target that
\* lives on: the target has lost the damage and is not marked, the projectile
\* is marked.
C15_Witness ==
  /\ pc = "projectileLoop"
  /\ idx > 1
  /\ LET p == projectiles[idx - 1]
         t == TargetOf(entityManager, p)
     IN /\ LifetimeOf(entityManager, p) > 0
        /\ t \in Living(entityManager)
        /\ DistanceSqBetween(entityManager, p, t) < 5 * 5
        /\ HealthOf(entityManager, t) =
             getComponent(entityManager, t, "Health").maximum
               - getComponent(entityManager, p, "Projectile").damage
        /\ HealthOf(entityManager, t) > 0
        /\ Occurrences(entitiesToRemove, p) = 1
        /\ Occurrences(entitiesToRemove, t) = 0

PositionOf(em, id) == getComponent(em, id, "Position")

\* The ids with a Position component.
Placed(em) == {id \in StoredIds(em) : hasComponent(getEntity(em, id), "Position")}

\* C16: the loop body for a projectile whose target is not in the store marks
\* the projectile for removal, once, and changes no health and no position;
\* when the stage ends no projectile is left in the store whose target is not
\* in it.
C16_LostTarget ==
  /\ [][(Resolving /\ TargetOf(entityManager, projectiles[idx]) \notin StoredIds(entityManager)) =>
          /\ Occurrences(entitiesToRemove', projectiles[idx]) = 1
          /\ Len(entitiesToRemove') = Len(entitiesToRemove) + 1
          /\ StoredOrder(entityManager') = StoredOrder(entityManager)
          /\ \A id \in Living(entityManager) :
               HealthOf(entityManager', id) = HealthOf(entityManager, id)
          /\ \A id \in Placed(entityManager) :
               PositionOf(entityManager', id) = PositionOf(entityManager, id)]_vars
  /\ [][(pc = "projectileLoop" /\ idx > Len(projectiles)) =>
          \A p \in InFlight(entityManager) :
            TargetOf(entityManager, p) \notin StoredIds(entityManager) =>
              p \notin StoredIds(entityManager')]_vars

\* C16 witness: the projectile before projectiles[idx] had lifetime left and
\* is marked because its target, hit by other projectiles a tick before, is
\* not in the store.
C16_Witness ==
  /\ pc = "projectileLoop"
  /\ idx > 1
  /\ LET p == projectiles[idx - 1]
     IN /\ TargetOf(entityManager, p) \notin StoredIds(entityManager)
        /\ LifetimeOf(entityManager, p) > 0
        /\ Occurrences(entitiesToRemove, p) = 1
        /\ deltaTime > 0

\* C17: the loop body takes the elapsed time off the lifetime of the
\* projectile it handles; when the lifetime is then 0 or below the projectile
\* is marked for removal, once, and no health and no position changes, however
\* near the target is; when the stage ends no projectile with a lifetime of 0
\* or below is left in the store.
C17_LifetimeExpiry ==
  /\ [][Resolving =>
          LET p == projectiles[idx]
          IN /\ LifetimeOf(entityManager', p) = LifetimeOf(entityManager, p) - deltaTime
             /\ LifetimeOf(entityManager', p) <= 0 =>
                  /\ entitiesToRemove' = Append(entitiesToRemove, p)
                  /\ ~DamageApplied
                  /\ \A id \in Placed(entityManager) :
                       PositionOf(entityManager', id) = PositionOf(entityManager, id)]_vars
  /\ [][(pc = "projectileLoop" /\ idx > Len(projectiles)) =>
          \A p \in InFlight(entityManager) :
            LifetimeOf(entityManager, p) <= 0 => p \notin StoredIds(entityManager')]_vars

\* C17 witness: the projectile before projectiles[idx] has used up its
\* lifetime less than 5 away from its target, which is in the store with the
\* health it had: the projectile is marked, the target is not.
C17_Witness ==
  /\ pc = "projectileLoop"
  /\ idx > 1
  /\ LET p == projectiles[idx - 1]
         t == TargetOf(entityManager, p)
     IN /\ LifetimeOf(entityManager, p) <= 0
        /\ t \in Living(entityManager)
        /\ DistanceSqBetween(entityManager, p, t) < 5 * 5
        /\ HealthOf(entityManager, t) = getComponent(entityManager, t, "Health").maximum
        /\ entitiesToRemove = <<p>>

\* C18: outside the scan of the Projectile-Resolution stage, and so at the
\* end of every tick, every Health in the store has a current above 0.
C18_NoDeadEntityStored ==
  pc # "projectileLoop" =>
    \A id \in Living(entityManager) : HealthOf(entityManager, id) > 0

\* C18 witness: the first tick has ended; its projectiles were fired at the
\* one entity with Health, which is no longer in the store.
C18_Witness ==
  /\ pc = "idle"
  /\ pendingFrames = 1
  /\ steps = 0
  /\ projectileIdCounter >= 2
  /\ Living(entityManager) = {}
  /\ EnemyId(0) \notin StoredIds(entityManager)

-----------------------------------------------------------------------------
(* Lists returned by withComponents, held by the caller while the store     *)
(* changes.                                                                 *)

\* The list the caller of withComponents(componentTypes) holds, once the
\* manager is em: withComponents returns the very array it keeps in
\* queryCache, so what is done to the cached array is done to the caller's.
HeldList(em, componentTypes, list) ==
  IF componentTypes # <<>> /\ QueryKey(componentTypes) \in DOMAIN em.queryCache
  THEN em.queryCache[QueryKey(componentTypes)]
  ELSE list

\* Enemies and the projectiles fired at the first of them.
HeldEntities ==
  {createBasicEnemy(EnemyId(n), 40 * n, 0) : n \in 0..(NumIds - 1)}
    \cup {createProjectile(ProjectileId(n), 0, 0, EnemyId(0), 25) : n \in 0..(NumIds - 2)}

HeldIds == {entity.id : entity \in HeldEntities}

HeldAdd(entity) ==
  /\ entityManager' = addEntity(entityManager, entity)
  /\ lastOp' = "addEntity"
  /\ queried' = queried
  /\ returned' = HeldList(entityManager', queried, returned)

HeldRemove(id) ==
  /\ entityManager' = removeEntity(entityManager, id)
  /\ lastOp' = "removeEntity"
  /\ queried' = queried
  /\ returned' = HeldList(entityManager', queried, returned)

HeldNext ==
  \/ \E entity \in HeldEntities : HeldAdd(entity) /\ UNCHANGED <<flowVars, tickVars, gameVars>>
  \/ \E id \in HeldIds : HeldRemove(id) /\ UNCHANGED <<flowVars, tickVars, gameVars>>
  \/ \E componentTypes \in StoreQueries : StoreQuery(componentTypes) /\ UNCHANGED <<flowVars, tickVars, gameVars>>

SpecHeld == StoreInit /\ [][HeldNext]_vars

\* C19: addEntity and removeEntity leave the list a query returned earlier as
\* it was, its length and its elements in their order.
C19_ReturnedListIsSnapshot ==
  [][lastOp' \in {"addEntity", "removeEntity"} => returned' = returned]_vars

\* C19 witness: after a query returned a list with an entity in it, the store
\* was changed: the list held is no longer what the query would return.
C19_Witness ==
  /\ lastOp \in {"addEntity", "removeEntity"}
  /\ queried # <<>>
  /\ returned # <<>>
  /\ ~IsExactly(returned, entityManager, queried)

-----------------------------------------------------------------------------
(* The Movement stage *)

MovementOf(em, id) == getComponent(em, id, "Movement")

\* The ids with a Movement component.
Movers(em) == {id \in Placed(em) : hasComponent(getEntity(em, id), "Movement")}

\* The position lies on a tile of the flow field.
OnFlowField(position) ==
  /\ 0 <= position.x /\ position.x < flowField.width
  /\ 0 <= position.y /\ position.y < flowField.height

\* The direction the Movement stage moves entity id along.
Heading(em, id) ==
  IF OnFlowField(PositionOf(em, id))
  THEN flowField.grid[PositionOf(em, id).y][PositionOf(em, id).x]
  ELSE MovementOf(em, id).direction

\* C20: the Movement stage gives every entity with Position and Movement the
\* direction of the flow field at its position, the zero vector included, and
\* leaves the direction it had where the flow field has none; it moves the
\* entity by that direction times currentSpeed times the elapsed seconds.  An
\* entity without Movement keeps its position.
C20_MovementStage ==
  [][pc = "movement" =>
       /\ \A id \in Movers(entityManager) :
            LET heading == Heading(entityManager, id)
                speed == MovementOf(entityManager, id).currentSpeed
            IN /\ MovementOf(entityManager', id).direction = heading
               /\ PositionOf(entityManager', id).x =
                    PositionOf(entityManager, id).x + Div(heading.x * speed * deltaTime, Unit * 1000)
               /\ PositionOf(entityManager', id).y =
                    PositionOf(entityManager, id).y + Div(heading.y * speed * deltaTime, Unit * 1000)
       /\ \A id \in Placed(entityManager) \ Movers(entityManager) :
            PositionOf(entityManager', id) = PositionOf(entityManager, id)
       /\ StoredOrder(entityManager') = StoredOrder(entityManager)]_vars

\* C20 witness: half a second after another, the Movement stage has left an
\* enemy on the goal tile with the zero vector as direction, has moved an
\* enemy beyond the tiles along the direction it had, and has left the sentry
\* where it was.
C20_Witness ==
  /\ pc = "attack"
  /\ deltaTime > 0
  /\ steps >= 2
  /\ \E id \in Movers(entityManager) :
       /\ MovementOf(entityManager, id).direction = ZeroVector
       /\ PositionOf(entityManager, id) = flowField.goalPosition
  /\ \E id \in Movers(entityManager) :
       /\ ~OnFlowField(PositionOf(entityManager, id))
       /\ MovementOf(entityManager, id).direction = Vec(Unit, 0)
       /\ PositionOf(entityManager, id) = Vec(35, 7)
  /\ \E id \in Placed(entityManager) \ Movers(entityManager) :
       PositionOf(entityManager, id) = Vec(100, 100)

-----------------------------------------------------------------------------
(* The march of a spawned enemy: the game runs with the first enemy of a     *)
(* wave in the store and no tower.                                           *)

\* The frames the march is followed for.
MaxMarch == 54

\* new Game, start, and the first timer of spawnWave has fired.
MarchInit ==
  /\ GameMap
  /\ distanceMap = <<>>
  /\ queue = <<>>
  /\ flowPc = "done"
  /\ entityManager =
       addEntity(EmptyManager,
                 createBasicEnemy(EnemyId(0),
                                  findSpawnPoint(tileMap).x * TileSize,
                                  findSpawnPoint(tileMap).y * TileSize))
  /\ lastOp = "new"
  /\ queried = <<>>
  /\ returned = <<>>
  /\ timers = <<>>
  /\ enemyIdCounter = 1
  /\ towerIdCounter = 0
  /\ placingTower = FALSE
  /\ removingTower = FALSE
  /\ inputs = 0
  /\ tileUI = NoTileUI
  /\ now = StartTime
  /\ lastTime = StartTime
  /\ isRunning = TRUE
  /\ pendingFrames = 0
  /\ dueFrames = 1
  /\ projectileIdCounter = 0
  /\ pc = "idle"
  /\ deltaTime = 0
  /\ towers = <<>>
  /\ enemies = <<>>
  /\ projectiles = <<>>
  /\ entitiesToRemove = <<>>
  /\ idx = 0
  /\ steps = 0

\* An animation frame begins, as in Advance.
MarchAdvance ==
  /\ pc = "idle"
  /\ steps < MaxMarch
  /\ dueFrames = 0
  /\ now' = now + TimeStep
  /\ steps' = steps + 1
  /\ dueFrames' = pendingFrames
  /\ pendingFrames' = 0
  /\ UNCHANGED <<storeVars, flowVars, gameVars, lastTime, isRunning,
                 projectileIdCounter, pc, deltaTime, towers, enemies, projectiles,
                 entitiesToRemove, idx>>

\* The store holds no attacker and no projectile: the loops of the Attack and
\* of the Projectile-Resolution stage have no iteration.
MarchNext ==
  \/ MarchAdvance
  \/ Frame
  \/ MovementStage
  \/ AttackBegin
  \/ AttackEnd
  \/ ProjectileBegin
  \/ ProjectileEnd

SpecMarch == MarchInit /\ [][MarchNext]_vars

\* The tile a position lies in: the tile the renderer draws there and a click
\* there selects.
TileOf(position) == Vec(position.x \div TileSize, position.y \div TileSize)

\* C21: an enemy that lies in the goal tile does not leave its position, and
\* a Movement stage that finds it there gives it the zero vector as direction.
C21_StopsAtGoal ==
  [][\A id \in Movers(entityManager) :
       (TileOf(PositionOf(entityManager, id)) = findGoalPoint(tileMap)
          /\ id \in StoredIds(entityManager')) =>
         /\ PositionOf(entityManager', id) = PositionOf(entityManager, id)
         /\ pc = "movement" => MovementOf(entityManager', id).direction = ZeroVector]_vars

-----------------------------------------------------------------------------
(* The neighbour a flow vector points to *)

\* The cell at offset i of FlowNeighbors from c.
NeighborAt(c, i) == <<c[1] + FlowNeighbors[i].dx, c[2] + FlowNeighbors[i].dy>>

\* The offsets of c that lead to an in-bounds cell of strictly lower distance.
Lower(c) ==
  {i \in 1..Len(FlowNeighbors) :
     NeighborAt(c, i) \in FlowCells /\ DistanceAt(NeighborAt(c, i)) < DistanceAt(c)}

\* The offsets of Lower(c) of the lowest distance.
Lowest(c) ==
  {i \in Lower(c) :
     \A j \in Lower(c) : DistanceAt(NeighborAt(c, i)) <= DistanceAt(NeighborAt(c, j))}

\* C22: the vector of a walkable cell of finite distance points to the
\* in-bounds 8-neighbour of the lowest distance among those of a distance
\* strictly lower than the cell's, the first of them in the order W, E, N, S,
\* NW, NE, SW, SE; it is the zero vector when there is no such neighbour.
C22_LowestNeighborFirst ==
  flowPc = "done" =>
    \A c \in FlowCells :
      (Walkable(c) /\ DistanceAt(c) < Infinity) =>
        IF Lowest(c) = {} THEN FlowAt(c) = ZeroVector
        ELSE \E i \in Lowest(c) :
               /\ \A j \in Lowest(c) : i <= j
               /\ Sgn(FlowAt(c).x) = FlowNeighbors[i].dx
               /\ Sgn(FlowAt(c).y) = FlowNeighbors[i].dy
               /\ FlowAt(c).x * FlowAt(c).x + FlowAt(c).y * FlowAt(c).y
                    \in (Unit * Unit - 2 * Unit)..(Unit * Unit)

\* C22 witness: a finished field with a cell that has two neighbours of the
\* same lowest distance, on either side of it, and points to the first of them.
C22_Witness ==
  /\ flowPc = "done"
  /\ \E c \in FlowCells :
       /\ Walkable(c)
       /\ DistanceAt(c) < Infinity
       /\ \E i \in Lowest(c), j \in Lowest(c) :
            /\ i < j
            /\ FlowNeighbors[i].dx = -FlowNeighbors[j].dx
            /\ FlowNeighbors[i].dx # 0
            /\ Sgn(FlowAt(c).x) = FlowNeighbors[i].dx
            /\ Sgn(FlowAt(c).y) = FlowNeighbors[i].dy

-----------------------------------------------------------------------------
(* The TileMap on its own: constructed with any arguments, then written and *)
(* read at coordinates inside and outside the grid.                         *)

\* width and height of the maps constructed.
MapShapes == {<<0, 2>>, <<1, 1>>, <<2, 2>>, <<3, 1>>}

\* The coordinates used as arguments, inside and outside every shape.
MapPoints == (-1..3) \X (-1..2)

Tiles == {GRASS, SPAWN, GOAL, STONE}

\* spawn || default: an argument left out is undefined.
Given(argument, default) == IF argument = NullVector THEN default ELSE argument

\* new TileMap(width, height, spawn?, goal?)
MapInit ==
  /\ TickUnused
  /\ GameUnused
  /\ entityManager = EmptyManager
  /\ flowField = <<>>
  /\ distanceMap = <<>>
  /\ queue = <<>>
  /\ flowPc = "unused"
  /\ \E shape \in MapShapes :
       \E spawn \in {NullVector} \cup {Vec(p[1], p[2]) : p \in MapPoints},
          goal \in {NullVector} \cup {Vec(p[1], p[2]) : p \in MapPoints} :
         /\ tileMap = NewTileMap(shape[1], shape[2],
                                 Given(spawn, DefaultSpawn(shape[1], shape[2])),
                                 Given(goal, DefaultGoal(shape[1], shape[2])))
         /\ lastOp = "new"
         /\ queried = <<shape[1], shape[2], spawn, goal>>
         /\ returned = <<>>

MapSetTile(x, y, tile) ==
  /\ tileMap' = setTile(tileMap, x, y, tile)
  /\ lastOp' = "setTile"
  /\ queried' = <<x, y, tile>>
  /\ returned' = <<>>

MapGetTile(x, y) ==
  /\ lastOp' = "getTile"
  /\ queried' = <<x, y>>
  /\ returned' = getTile(tileMap, x, y)
  /\ UNCHANGED tileMap

MapIsWalkable(x, y) ==
  /\ lastOp' = "isWalkable"
  /\ queried' = <<x, y>>
  /\ returned' = isWalkable(tileMap, x, y)
  /\ UNCHANGED tileMap

MapIsBuildable(x, y) ==
  /\ lastOp' = "isBuildable"
  /\ queried' = <<x, y>>
  /\ returned' = isBuildable(tileMap, x, y)
  /\ UNCHANGED tileMap

MapFindSpawnPoint ==
  /\ lastOp' = "findSpawnPoint"
  /\ queried' = <<>>
  /\ returned' = findSpawnPoint(tileMap)
  /\ UNCHANGED tileMap

MapFindGoalPoint ==
  /\ lastOp' = "findGoalPoint"
  /\ queried' = <<>>
  /\ returned' = findGoalPoint(tileMap)
  /\ UNCHANGED tileMap

MapUnchanged ==
  UNCHANGED <<entityManager, flowField, distanceMap, queue, flowPc, tickVars, gameVars>>

MapNext ==
  \/ \E p \in MapPoints, tile \in Tiles : MapSetTile(p[1], p[2], tile) /\ MapUnchanged
  \/ \E p \in MapPoints : MapGetTile(p[1], p[2]) /\ MapUnchanged
  \/ \E p \in MapPoints : MapIsWalkable(p[1], p[2]) /\ MapUnchanged
  \/ \E p \in MapPoints : MapIsBuildable(p[1], p[2]) /\ MapUnchanged
  \/ MapFindSpawnPoint /\ MapUnchanged
  \/ MapFindGoalPoint /\ MapUnchanged

SpecMap == MapInit /\ [][MapNext]_vars

\* The cells of a map, as <<x, y>>.
CellsOf(tm) == (0..(tm.width - 1)) \X (0..(tm.height - 1))

\* C23: a getTile outside the grid returns the absent value, an isWalkable or
\* isBuildable outside it returns false, a setTile outside it changes no cell;
\* whatever the calls, width and height stay as constructed and every cell of
\* the grid holds one tile.
C23_OutOfRangeAccess ==
  [][/\ (/\ lastOp' \in {"getTile", "isWalkable", "isBuildable", "setTile"}
         /\ <<queried'[1], queried'[2]>> \notin CellsOf(tileMap)) =>
          /\ lastOp' = "getTile" => returned' = NullTile
          /\ lastOp' \in {"isWalkable", "isBuildable"} => returned' = FALSE
          /\ lastOp' = "setTile" => tileMap' = tileMap
     /\ tileMap'.width = tileMap.width
     /\ tileMap'.height = tileMap.height
     /\ DOMAIN tileMap'.grid = 0..(tileMap.height - 1)
     /\ \A y \in 0..(tileMap.height - 1) :
          /\ DOMAIN tileMap'.grid[y] = 0..(tileMap.width - 1)
          /\ \A x \in 0..(tileMap.width - 1) : tileMap'.grid[y][x] \in Tiles]_vars

\* C23 witness: a setTile outside the grid has followed, on a map with cells,
\* a setTile that wrote a cell of it.
C23_Witness ==
  /\ lastOp = "setTile"
  /\ <<queried[1], queried[2]>> \notin CellsOf(tileMap)
  /\ queried[1] \in {-1, tileMap.width}
  /\ queried[2] \in 0..(tileMap.height - 1)
  /\ \E c \in CellsOf(tileMap) : tileMap.grid[c[2]][c[1]] = STONE

\* The cells of a map whose tile has the property.
CellsWith(tm, property) ==
  {c \in CellsOf(tm) : getProperty(tm.grid[c[2]][c[1]], property, FALSE)}

\* c comes before d when the grid is read row by row.
RowMajorBefore(c, d) == c[2] < d[2] \/ (c[2] = d[2] /\ c[1] < d[1])

\* The answer of a find call is the first cell whose tile has the property,
\* the absent value exactly when there is none.
FirstFound(tm, property, answer) ==
  IF CellsWith(tm, property) = {} THEN answer = NullVector
  ELSE /\ answer # NullVector
       /\ <<answer.x, answer.y>> \in CellsWith(tm, property)
       /\ \A c \in CellsWith(tm, property) : ~RowMajorBefore(c, <<answer.x, answer.y>>)

\* The position the constructor uses for the spawn and for the goal.
SpawnUsed == Given(queried[3], DefaultSpawn(queried[1], queried[2]))

GoalUsed == Given(queried[4], DefaultGoal(queried[1], queried[2]))

\* C24 as stated: whatever the arguments, a constructed map holds exactly one
\* spawn tile and exactly one goal tile.
C24_Original ==
  lastOp = "new" =>
    /\ Cardinality(CellsWith(tileMap, "isSpawn")) = 1
    /\ Cardinality(CellsWith(tileMap, "isGoal")) = 1

\* C24 amended: a constructed map holds exactly one spawn tile and exactly one
\* goal tile when the spawn and goal positions used, given or default, are two
\* different cells of the grid; findSpawnPoint and findGoalPoint return the
\* first matching cell row by row, the absent value only when none matches.
C24_SpawnAndGoal ==
  /\ (/\ lastOp = "new"
      /\ <<SpawnUsed.x, SpawnUsed.y>> \in CellsOf(tileMap)
      /\ <<GoalUsed.x, GoalUsed.y>> \in CellsOf(tileMap)
      /\ SpawnUsed # GoalUsed) =>
         /\ CellsWith(tileMap, "isSpawn") = {<<SpawnUsed.x, SpawnUsed.y>>}
         /\ CellsWith(tileMap, "isGoal") = {<<GoalUsed.x, GoalUsed.y>>}
  /\ lastOp = "findSpawnPoint" => FirstFound(tileMap, "isSpawn", returned)
  /\ lastOp = "findGoalPoint" => FirstFound(tileMap, "isGoal", returned)

\* C24 witness: findSpawnPoint has answered on a map with two spawn tiles,
\* with the one of the later row but the lower column left aside.
C24_Witness ==
  /\ lastOp = "findSpawnPoint"
  /\ returned # NullVector
  /\ \E c \in CellsWith(tileMap, "isSpawn") :
       /\ c[1] < returned.x
       /\ c[2] > returned.y
  /\ CellsWith(tileMap, "isGoal") = {}

-----------------------------------------------------------------------------
(* Lookups in a finished flow field *)

\* The coordinates looked up, in units of 1/Unit: whole and fractional,
\* negative, inside the grid and at and beyond its far edge.
FlowProbes ==
  {-Unit, -1, 0, Unit \div 2, Unit - 1, Unit, FlowSize * Unit - 1, FlowSize * Unit,
   FlowSize * Unit + 1}

\* new FlowField(tileMap, goalX, goalY) on a map with at most one stone.
LookupInit ==
  /\ TickUnused
  /\ GameUnused
  /\ entityManager = EmptyManager
  /\ lastOp = "new"
  /\ queried = <<>>
  /\ returned = <<>>
  /\ \E stones \in SUBSET FlowCells, goal \in FlowCells :
       /\ Cardinality(stones) <= 1
       /\ tileMap = StoneMap(stones)
       /\ flowField = NewFlowField(tileMap, goal[1], goal[2])
       /\ distanceMap = generateDistanceMap(tileMap, flowField)
  /\ queue = <<>>
  /\ flowPc = "done"

FlowLookup(x, y) ==
  /\ lastOp' = "getFlowDirection"
  /\ queried' = <<x, y>>
  /\ returned' = getFlowDirection(flowField, x, y)
  /\ UNCHANGED <<entityManager, flowVars, tickVars, gameVars>>

LookupNext == \E x \in FlowProbes, y \in FlowProbes : FlowLookup(x, y)

SpecLookup == LookupInit /\ [][LookupNext]_vars

\* The tile index t with t <= n / Unit < t + 1.
TileIndex(n) == CHOOSE t \in -2..(FlowSize + 1) : t * Unit <= n /\ n < (t + 1) * Unit

\* C25: getFlowDirection returns the absent value exactly when the floors of
\* its coordinates are not the indices of a cell of the grid, and otherwise
\* the vector the constructor computed for that cell.
C25_FlowLookup ==
  lastOp = "getFlowDirection" =>
    LET tile == <<TileIndex(queried[1]), TileIndex(queried[2])>>
    IN /\ returned = NullVector <=> tile \notin FlowCells
       /\ tile \in FlowCells => returned = FlowAt(tile)

\* C25 witness: a lookup at fractional coordinates inside the grid returned a
\* non-zero vector, the one of the cell the coordinates floor to.
C25_Witness ==
  /\ lastOp = "getFlowDirection"
  /\ queried[1] = FlowSize * Unit - 1
  /\ queried[2] = Unit \div 2
  /\ returned = FlowAt(<<FlowSize - 1, 0>>)
  /\ returned # ZeroVector

-----------------------------------------------------------------------------
(* Towers and tiles *)

\* The towers in a store: the entities placeTower inserted.
TowersIn(em) == {id \in StoredIds(em) : id[1] = "tower"}

\* The tile a stored entity stands on.
TileUnder(em, id) == TileOf(PositionOf(em, id))

\* C26: a step inserts a tower only in placing mode, one tower at a time, on
\* a buildable tile no tower stood on, and changes nothing else of the
\* store's entities; in every state no two towers stand on the same tile and
\* every tower stands on a buildable tile.
C26_TowerPlacement ==
  /\ [](\A t \in TowersIn(entityManager) :
          /\ isBuildable(tileMap, TileUnder(entityManager, t).x, TileUnder(entityManager, t).y)
          /\ \A u \in TowersIn(entityManager) :
               u # t => TileUnder(entityManager, u) # TileUnder(entityManager, t))
  /\ [][\A t \in TowersIn(entityManager') \ TowersIn(entityManager) :
          /\ placingTower
          /\ TowersIn(entityManager') = TowersIn(entityManager) \cup {t}
          /\ Len(entityManager'.entities) = Len(entityManager.entities) + 1
          /\ SubSeq(entityManager'.entities, 1, Len(entityManager.entities))
               = entityManager.entities
          /\ isBuildable(tileMap, TileUnder(entityManager', t).x,
                         TileUnder(entityManager', t).y)
          /\ \A u \in TowersIn(entityManager) :
               TileUnder(entityManager, u) # TileUnder(entityManager', t)]_vars

\* C26 witness: placeTower has inserted a tower, and the game is in placing
\* mode again with clicks left, on the tower's tile among others.
C26_Witness ==
  /\ TowersIn(entityManager) = {TowerId(0)}
  /\ TileUnder(entityManager, TowerId(0)) = Vec(2, 7)
  /\ placingTower
  /\ towerIdCounter = 1
  /\ inputs < MaxInputs

-----------------------------------------------------------------------------
(* The second variant of Game: towers are placed at the centre of the tile  *)
(* and placing mode stays on.  The game is constructed and not started; the *)
(* player uses the two tower buttons and clicks on the canvas.              *)

\* Game.placeTower, second variant: the manager and towerIdCounter afterwards.
\* placeTower of the second variant with `towerIdCounter` read but not raised.
placeTowerRevised_SameId(em, tm, counter, tileX, tileY) ==
  LET worldX == tileX * TileSize + TileSize \div 2
      worldY == tileY * TileSize + TileSize \div 2
      found == findTowerAt(em, worldX, worldY)
  IN IF ~isBuildable(tm, tileX, tileY)
     THEN [em |-> em, towerIdCounter |-> counter]
     ELSE IF found.tower # NullId
          THEN [em |-> found.em, towerIdCounter |-> counter]
          ELSE [em |-> addEntity(found.em, createBasicTower(TowerId(counter), worldX, worldY)),
                towerIdCounter |-> counter]

placeTowerRevised(em, tm, counter, tileX, tileY) ==
  LET worldX == tileX * TileSize + TileSize \div 2
      worldY == tileY * TileSize + TileSize \div 2
      found == findTowerAt(em, worldX, worldY)
  IN IF ~isBuildable(tm, tileX, tileY)
     THEN [em |-> em, towerIdCounter |-> counter]
     ELSE IF found.tower # NullId
          THEN [em |-> found.em, towerIdCounter |-> counter]
          ELSE [em |-> addEntity(found.em, createBasicTower(TowerId(counter), worldX, worldY)),
                towerIdCounter |-> counter + 1]

\* The click listener of place-tower-btn.
RevisedPlaceButton ==
  /\ inputs < MaxInputs
  /\ inputs' = inputs + 1
  /\ UNCHANGED tileUI
  /\ placingTower' = ~placingTower
  /\ removingTower' = FALSE
  /\ lastOp' = "placeTowerBtn"
  /\ queried' = <<>>
  /\ UNCHANGED <<entityManager, returned, flowVars, tickVars, timers, enemyIdCounter,
                 towerIdCounter>>

\* The click listener of remove-tower-btn.
RevisedRemoveButton ==
  /\ inputs < MaxInputs
  /\ inputs' = inputs + 1
  /\ UNCHANGED tileUI
  /\ removingTower' = ~removingTower
  /\ placingTower' = FALSE
  /\ lastOp' = "removeTowerBtn"
  /\ queried' = <<>>
  /\ UNCHANGED <<entityManager, returned, flowVars, tickVars, timers, enemyIdCounter,
                 towerIdCounter>>

\* Game.handleCanvasClick on a tile, second variant.
RevisedCanvasClick ==
  /\ inputs < MaxInputs
  /\ inputs' = inputs + 1
  /\ UNCHANGED tileUI
  /\ \E tile \in ClickTiles :
       /\ lastOp' = "handleCanvasClick"
       /\ queried' = tile
       /\ IF placingTower
          THEN LET r == placeTowerRevised(entityManager, tileMap, towerIdCounter,
                                          tile[1], tile[2])
               IN /\ entityManager' = r.em
                  /\ towerIdCounter' = r.towerIdCounter
                  /\ UNCHANGED <<placingTower, removingTower>>
          ELSE IF removingTower
               THEN LET r == removeTower(entityManager, removingTower, tile[1], tile[2])
                    IN /\ entityManager' = r.em
                       /\ removingTower' = r.removingTower
                       /\ UNCHANGED <<towerIdCounter, placingTower>>
               ELSE UNCHANGED <<entityManager, towerIdCounter, placingTower, removingTower>>
  /\ UNCHANGED <<returned, flowVars, tickVars, timers, enemyIdCounter>>

RevisedNext ==
  \/ RevisedPlaceButton
  \/ RevisedRemoveButton
  \/ RevisedCanvasClick

SpecRevised == Init /\ [][RevisedNext]_vars

\* The towers of a store that stand on the tile.
TowersOn(em, tile) == {t \in TowersIn(em) : TileUnder(em, t) = Vec(tile[1], tile[2])}

\* C27: a click in removing mode on a tile on which placeTower put a tower
\* removes exactly that tower from the store, and one on a tile without a
\* tower leaves the store's entities as they were.
C27_RemoveAfterPlace ==
  [][(lastOp' = "handleCanvasClick" /\ inputs' # inputs /\ removingTower) =>
       /\ Cardinality(TowersOn(entityManager, queried')) <= 1
       /\ StoredIds(entityManager')
            = StoredIds(entityManager) \ TowersOn(entityManager, queried')
       /\ TowersOn(entityManager, queried') = {} =>
            entityManager'.entities = entityManager.entities]_vars

-----------------------------------------------------------------------------
(* Waves: the game with its start, stop and start-wave controls, followed   *)
(* until every timer of every wave has run.                                 *)

\* The waves the player starts.
MaxWaves == 2

\* The waves started so far: each sets EnemyCount timers, and each timer that
\* ran has taken one enemy id.
WavesStarted == (Len(timers) + enemyIdCounter) \div EnemyCount

WaveSpawnWave ==
  /\ WavesStarted < MaxWaves
  /\ SpawnWave

\* An animation frame begins, as in Advance; the host goes on while a timer
\* is set.
WaveAdvance ==
  /\ pc = "idle"
  /\ steps < MaxSteps \/ timers # <<>>
  /\ dueFrames = 0
  /\ \A i \in 1..Len(timers) : timers[i] > now
  /\ now' = now + TimeStep
  /\ steps' = steps + 1
  /\ dueFrames' = pendingFrames
  /\ pendingFrames' = 0
  /\ UNCHANGED <<storeVars, flowVars, gameVars, lastTime, isRunning,
                 projectileIdCounter, pc, deltaTime, towers, enemies, projectiles,
                 entitiesToRemove, idx>>

\* No tower is placed: the loops of the Attack and of the
\* Projectile-Resolution stage have no iteration.
\* The host is between two animation frames: no callback is left to run.
BetweenFrames ==
  /\ pc = "idle"
  /\ dueFrames = 0
  /\ \A i \in 1..Len(timers) : timers[i] > now

\* The game is started and stopped before the first animation frame, and
\* the waves are started between frames within one WaveInterval, so that
\* their timers interleave.
WaveNext ==
  \/ steps = 0 /\ ~isRunning /\ Start
  \/ steps = 0 /\ isRunning /\ Stop
  \/ now < StartTime + WaveInterval /\ BetweenFrames /\ WaveSpawnWave
  \/ SpawnEnemy
  \/ WaveAdvance
  \/ Frame
  \/ MovementStage
  \/ AttackBegin
  \/ AttackEnd
  \/ ProjectileBegin
  \/ ProjectileEnd

\* A step of the host's timer queue: a callback that is due runs and leaves
\* the queue.
TimerStep ==
  /\ pc = "idle"
  /\ \E i \in 1..Len(timers) :
       /\ timers[i] <= now
       /\ timers' = [k \in 1..(Len(timers) - 1) |->
                       IF k < i THEN timers[k] ELSE timers[k + 1]]

\* The host lets the clock go on, runs every timer that is due and every
\* requested frame callback, and a callback runs to completion.
SpecWave ==
  /\ Init
  /\ [][WaveNext]_vars
  /\ WF_vars(WaveAdvance)
  /\ WF_vars(Frame)
  /\ WF_timers(TimerStep)
  /\ WF_<<pc, idx>>(UpdateStep)

\* The enemies in a store: the entities the timers of spawnWave inserted.
EnemiesIn(em) == {id \in StoredIds(em) : id[1] = "enemy"}

\* C28: a wave-start request adds EnemyCount timers to the ones set and
\* inserts nothing; a step takes a timer away only by running it, one at a
\* time, and it inserts exactly one new enemy at the position of the spawn
\* tile; no other step inserts an enemy; and the enemies of every wave
\* started are eventually all in the store, whether the game runs or not.
C28_WaveTimers ==
  /\ [][/\ Len(timers') > Len(timers) =>
             /\ Len(timers') = Len(timers) + EnemyCount
             /\ SubSeq(timers', 1, Len(timers)) = timers
             /\ entityManager' = entityManager
        /\ Len(timers') < Len(timers) =>
             /\ Len(timers') = Len(timers) - 1
             /\ \E id \in EnemiesIn(entityManager') \ EnemiesIn(entityManager) :
                  /\ StoredIds(entityManager') = StoredIds(entityManager) \cup {id}
                  /\ TileUnder(entityManager', id) = findSpawnPoint(tileMap)
        /\ EnemiesIn(entityManager') # EnemiesIn(entityManager) =>
             Len(timers') = Len(timers) - 1]_vars
  /\ \A n \in 1..MaxWaves :
       (WavesStarted >= n) ~>
         (\A k \in 0..(n * EnemyCount - 1) : EnemyId(k) \in StoredIds(entityManager))

\* C28 witness: the game was started and stopped, two waves were started, the
\* second before the last timer of the first had run, and all their enemies
\* are in the store.
C28_Witness ==
  /\ ~isRunning
  /\ lastTime > 0
  /\ timers = <<>>
  /\ Cardinality(EnemiesIn(entityManager)) = 2 * EnemyCount
  /\ now < StartTime + 2 * EnemyCount * WaveInterval

-----------------------------------------------------------------------------
(* The stop flag *)

\* The frame callbacks requested and not yet run.
FramesRequested == pendingFrames + dueFrames

\* C29: while the game is stopped no system of update is entered, gameLoop
\* reads no time, and no frame callback is requested: the callbacks still
\* requested can only run and return.
C29_StoppedGame ==
  /\ [](~isRunning => pc = "idle")
  /\ [][(~isRunning /\ ~isRunning') =>
          /\ pc' = "idle"
          /\ FramesRequested' <= FramesRequested
          /\ lastTime' = lastTime
          /\ deltaTime' = deltaTime
          /\ projectileIdCounter' = projectileIdCounter]_vars

\* C29 witness: the game was started and stopped with a frame callback
\* requested, and that callback has run since and requested none.
C29_Witness ==
  /\ ~isRunning
  /\ lastTime > 0
  /\ now > lastTime
  /\ FramesRequested = 0

-----------------------------------------------------------------------------
(* Entities that lack a component a stage requires *)

\* The components the query of a stage requires.
MovementNeeds == {"Position", "Movement"}

AttackNeeds == {"Position", "Attack", "Targeting", "Timing"}

TargetNeeds == {"Position", "Health"}

ProjectileNeeds == {"Position", "Projectile"}

Lacks(em, id, needs) == \E type \in needs : ~hasComponent(getEntity(em, id), type)

\* The step leaves the entity in the store as it is.
Untouched(id) ==
  /\ id \in StoredIds(entityManager')
  /\ getEntity(entityManager', id) = getEntity(entityManager, id)

\* No list of a stage holds an entity that lacks a component its query
\* requires.
NotQueried ==
  /\ \A i \in 1..Len(towers) : ~Lacks(entityManager, towers[i], AttackNeeds)
  /\ \A i \in 1..Len(enemies) : ~Lacks(entityManager, enemies[i], TargetNeeds)
  /\ \A i \in 1..Len(projectiles) : ~Lacks(entityManager, projectiles[i], ProjectileNeeds)

\* The Movement and the Attack stage leave such an entity as it is, and a
\* projectile is fired only by an entity with the four components.
NotMovedNotFiring ==
  /\ pc = "movement" =>
       \A id \in StoredIds(entityManager) :
         Lacks(entityManager, id, MovementNeeds) => Untouched(id)
  /\ pc \in {"attack", "attackLoop"} =>
       \A id \in StoredIds(entityManager) :
         Lacks(entityManager, id, AttackNeeds) => Untouched(id)
  /\ projectileIdCounter' # projectileIdCounter =>
       /\ pc = "attackLoop"
       /\ ~Lacks(entityManager, towers[idx], AttackNeeds)

\* C30 as stated: no stage returns from its query or changes an entity that
\* lacks a component the query requires.
C30_Original ==
  /\ []NotQueried
  /\ [][/\ NotMovedNotFiring
        /\ pc \in {"projectile", "projectileLoop"} =>
             \A id \in StoredIds(entityManager) :
               Lacks(entityManager, id, ProjectileNeeds) => Untouched(id)]_vars

\* The Health of the entity changed and nothing else of it.
OnlyHealthChanged(id) ==
  /\ id \in StoredIds(entityManager')
  /\ hasComponent(getEntity(entityManager, id), "Health")
  /\ getEntity(entityManager', id) =
       [getEntity(entityManager, id) EXCEPT
          !.components["Health"] = getComponent(entityManager', id, "Health")]

\* C30 amended: the same, except that the Projectile-Resolution stage lowers
\* the Health of the entity a projectile has reached and removes, after its
\* scan, the entities it has listed for removal.
C30_MalformedSkipped ==
  /\ []NotQueried
  /\ [][/\ NotMovedNotFiring
        /\ pc \in {"projectile", "projectileLoop"} =>
             \A id \in StoredIds(entityManager) :
               Lacks(entityManager, id, ProjectileNeeds) =>
                 \/ Untouched(id)
                 \/ /\ Resolving
                    /\ id = TargetOf(entityManager, projectiles[idx])
                    /\ OnlyHealthChanged(id)
                 \/ /\ ~Resolving
                    /\ Occurrences(entitiesToRemove, id) > 0
                    /\ id \notin StoredIds(entityManager')]_vars

\* C30 witness: the Attack stage has gone through its list; a sentry without
\* Timing stands next to a sentry that has fired at the enemy in the range of
\* both, it is not in the list, and it is as it was inserted.
C30_Witness ==
  /\ pc = "attackLoop"
  /\ idx > Len(towers)
  /\ projectileIdCounter = 1
  /\ <<"untimed", 0>> \in StoredIds(entityManager)
  /\ getEntity(entityManager, <<"untimed", 0>>) = Untimed(0, 105, 100)
  /\ \A i \in 1..Len(towers) : towers[i] # <<"untimed", 0>>
  /\ \E i \in 1..Len(enemies) :
       DistanceSq(getComponent(entityManager, enemies[i], "Position"), Vec(105, 100))
         <= 100 * 100

-----------------------------------------------------------------------------
(* C31: the order of the names given to withComponents.                     *)

\* The name lists that denote the same component set as the given one.
SameNames(p) == {q \in StoreQueries : Range(q) = Range(p)}

-----------------------------------------------------------------------------
(* C32: the queue of generateDistanceMap.                                   *)

\* The while loop is left once the queue is empty.
LoopExit ==
  /\ flowPc = "distance"
  /\ Len(queue) = 0
  /\ flowPc' = "done"

\* The constructor runs without interruption: an iteration of the while loop
\* that can be made is made, and so is the exit once the queue is empty.
SpecPropagate ==
  /\ FlowInit
  /\ [][FlowNext]_vars
  /\ WF_<<distanceMap, queue>>(FlowVisit)
  /\ WF_flowPc(LoopExit)

\* What the current iteration pushed: the queue after it is the old queue
\* without its head, followed by the pushed items.
Pushed == SubSeq(queue', Len(queue), Len(queue'))

IsGoal(x, y) == x = flowField.goalPosition.x /\ y = flowField.goalPosition.y

\* Every queued item is a cell whose distance is set, to the item's distance,
\* and no cell is in the queue twice.
QueueSettled ==
  /\ \A i \in 1..Len(queue) : distanceMap[queue[i].y][queue[i].x] = queue[i].distance
  /\ \A i, j \in 1..Len(queue) :
       (queue[i].x = queue[j].x /\ queue[i].y = queue[j].y) => i = j

\* A distance that is set stays as it is.
NeverLowered ==
  \A c \in FlowCells :
    distanceMap[c[2]][c[1]] # Infinity => distanceMap'[c[2]][c[1]] = distanceMap[c[2]][c[1]]

\* A cell is pushed only while its distance is not set, once per iteration, and
\* only if it is walkable.
PushedFresh ==
  /\ \A i \in 1..Len(Pushed) :
       /\ distanceMap[Pushed[i].y][Pushed[i].x] = Infinity
       /\ isWalkable(tileMap, Pushed[i].x, Pushed[i].y)
  /\ \A i, j \in 1..Len(Pushed) :
       (Pushed[i].x = Pushed[j].x /\ Pushed[i].y = Pushed[j].y) => i = j

\* C32 as stated, its last part: no cell that is in the queue is non-walkable.
C32_Original ==
  \A i \in 1..Len(queue) : isWalkable(tileMap, queue[i].x, queue[i].y)

\* C32 amended: the propagation ends; a distance once set is never changed; a
\* cell is enqueued only while its distance is not set, hence at most once; and
\* no non-walkable cell other than the goal cell, which is enqueued before the
\* loop whatever its tile, is ever in the queue.
C32_Propagation ==
  /\ <>(flowPc = "done")
  /\ [](flowPc = "distance" => QueueSettled)
  /\ [](\A i \in 1..Len(queue) :
          isWalkable(tileMap, queue[i].x, queue[i].y) \/ IsGoal(queue[i].x, queue[i].y))
  /\ [][flowPc = "distance" => (NeverLowered /\ (queue' # queue => PushedFresh))]_vars

\* C32 witness: the propagation has ended from a goal on a non-walkable tile;
\* a cell was reachable over two neighbours one step nearer, and a stone next
\* to a reached cell was left out.
C32_Witness ==
  /\ flowPc = "done"
  /\ ~isWalkable(tileMap, flowField.goalPosition.x, flowField.goalPosition.y)
  /\ \E c \in FlowCells :
       /\ DistanceAt(c) \in 1..(Infinity - 1)
       /\ Cardinality({n \in FlowCells :
                         /\ Adjacent4(c, n)
                         /\ DistanceAt(n) = DistanceAt(c) - 1}) >= 2
  /\ \E s \in FlowCells :
       /\ ~isWalkable(tileMap, s[1], s[2])
       /\ ~IsGoal(s[1], s[2])
       /\ DistanceAt(s) = Infinity
       /\ \E n \in FlowCells : Adjacent4(s, n) /\ DistanceAt(n) < Infinity

-----------------------------------------------------------------------------
(* C33: a projectile in the tick that created it.                           *)

\* createProjectile: the lifetime a projectile starts with.
FullLifetime == createProjectile(NullId, 0, 0, NullId, 0).components["Projectile"].lifetime

\* C33: the list the Projectile-Resolution stage scans holds every projectile
\* of the store, the ones the Attack stage of the same tick inserted included;
\* so when a tick with elapsed time has ended, no projectile in the store has
\* its full lifetime left: the tick that created it has taken its elapsed time
\* off it.
C33_SeenInSameTick ==
  /\ pc = "projectileLoop" => InFlight(entityManager) \subseteq Range(projectiles)
  /\ (pc = "idle" /\ deltaTime > 0) =>
       \A id \in InFlight(entityManager) : LifetimeOf(entityManager, id) < FullLifetime

\* C33 witness: in a tick with elapsed time an attacker has fired (its
\* lastAttackTime is the time of this tick), and the scan of the same tick has
\* handled the projectile created last: it has lost the elapsed time.
C33_Witness ==
  /\ pc = "projectileLoop"
  /\ deltaTime > 0
  /\ projectileIdCounter > 1
  /\ \E id \in StoredIds(entityManager) :
       /\ hasComponent(getEntity(entityManager, id), "Timing")
       /\ getComponent(entityManager, id, "Timing").lastAttackTime = now
  /\ \E i \in 1..(idx - 1) :
       /\ i <= Len(projectiles)
       /\ projectiles[i] = ProjectileId(projectileIdCounter - 1)
       /\ hasEntity(entityManager, projectiles[i])
       /\ LifetimeOf(entityManager, projectiles[i]) = FullLifetime - deltaTime

-----------------------------------------------------------------------------
(* The first-draft tile UI: TileSelectionSystem and GameUISystem over the    *)
(* tiles of the grid.  A tile is [isHovered, touchStartTime, isTouchHover,   *)
(* selection]; selection is NoComponent until selectTile adds the Selection  *)
(* component.  A pointer event is [at, type]: `at` is the tile the ray       *)
(* through the event's coordinates hits (NullId: none).  The fields that no  *)
(* code of the two systems reads (intensity, hoverStartTime, touchId,        *)
(* selectedTime) are left out.                                               *)

Fingers == 3

HOVER_TOUCH_DURATION == 500

TileIds == {<<"tile", 0>>, <<"tile", 1>>}

NoComponent == [absent |-> TRUE]

NullPointer == [null |-> TRUE]

\* TileGrid.createTile: Hover and TouchInteraction with their defaults, no Selection.
NewTile ==
  [isHovered |-> FALSE, touchStartTime |-> 0, isTouchHover |-> FALSE,
   selection |-> NoComponent]

PointerEvents == [at : TileIds \cup {NullId}, type : {"mouse", "touch"}]

onPointerMove(ui, event) == [ui EXCEPT !.currentPointer = event]

onPointerDown(ui, event, time) ==
  IF event.type = "touch"
  THEN [ui EXCEPT !.tiles = [t \in TileIds |-> [ui.tiles[t] EXCEPT !.touchStartTime = time]]]
  ELSE ui

\* selectTile without the clearing of the previous selection.
selectTile_KeepPrevious(ui, entity) ==
  [ui EXCEPT !.selectedEntity = entity,
             !.tiles[entity].selection = [isSelected |-> TRUE]]

selectTile(ui, entity) ==
  LET cleared ==
        IF ui.selectedEntity # NullId /\ ui.tiles[ui.selectedEntity].selection # NoComponent
        THEN [ui.tiles EXCEPT ![ui.selectedEntity].selection = [isSelected |-> FALSE]]
        ELSE ui.tiles
  IN [ui EXCEPT !.selectedEntity = entity,
                !.tiles = [cleared EXCEPT ![entity].selection = [isSelected |-> TRUE]]]

onPointerUp(ui, event) ==
  IF ui.hoveredEntity # NullId THEN selectTile(ui, ui.hoveredEntity) ELSE ui

clearHoverStates(ui) ==
  [ui EXCEPT !.tiles = [t \in TileIds |-> [ui.tiles[t] EXCEPT !.isHovered = FALSE]],
             !.hoveredEntity = NullId]

setHoverState(ui, hoveredEntity) ==
  [ui EXCEPT !.hoveredEntity = hoveredEntity,
             !.tiles[hoveredEntity].isHovered = TRUE]

updateRaycasting(ui) ==
  LET cleared == clearHoverStates(ui)
  IN IF ui.currentPointer.at # NullId
     THEN setHoverState(cleared, ui.currentPointer.at)
     ELSE cleared

updateTouchHoverState(ui, currentTime) ==
  IF ui.currentPointer.type # "touch" THEN ui
  ELSE [ui EXCEPT !.tiles =
          [t \in TileIds |->
             IF /\ ui.tiles[t].isHovered
                /\ currentTime - ui.tiles[t].touchStartTime >= HOVER_TOUCH_DURATION
                /\ ~ui.tiles[t].isTouchHover
             THEN [ui.tiles[t] EXCEPT !.isTouchHover = TRUE]
             ELSE ui.tiles[t]]]

\* TileSelectionSystem.update
TileSelectionSystem_update(ui, currentTime) ==
  IF ui.currentPointer = NullPointer THEN ui
  ELSE updateTouchHoverState(updateRaycasting(ui), currentTime)

onTwoFingerTouch(ui) ==
  LET cleared == clearHoverStates(ui)
  IN [cleared EXCEPT !.tiles =
        [t \in TileIds |-> [cleared.tiles[t] EXCEPT !.isTouchHover = FALSE]]]

IsSelected(ui, t) == ui.tiles[t].selection = [isSelected |-> TRUE]

\* GameUISystem.update: showTileDetails of a selected tile shows the panel.
GameUISystem_update(ui) ==
  IF \E t \in TileIds : IsSelected(ui, t)
  THEN [ui EXCEPT !.panelHidden = FALSE]
  ELSE ui

closeTilePanel(ui) ==
  [ui EXCEPT !.panelHidden = TRUE,
             !.tiles = [t \in TileIds |->
                          IF ui.tiles[t].selection # NoComponent
                          THEN [ui.tiles[t] EXCEPT !.selection = [isSelected |-> FALSE]]
                          ELSE ui.tiles[t]]]

\* The application after init(): the grid is generated, no event has come.
TileInit ==
  /\ StoreUnused
  /\ FlowUnused
  /\ TickUnused
  /\ timers = <<>>
  /\ enemyIdCounter = 0
  /\ towerIdCounter = 0
  /\ placingTower = FALSE
  /\ removingTower = FALSE
  /\ inputs = 0
  /\ tileUI = [tiles |-> [t \in TileIds |-> NewTile], currentPointer |-> NullPointer,
               hoveredEntity |-> NullId, selectedEntity |-> NullId,
               panelHidden |-> TRUE, touches |-> 0]

TileRest ==
  UNCHANGED <<storeVars, flowVars, tickVars, timers, enemyIdCounter, towerIdCounter,
              placingTower, removingTower, inputs>>

\* mousedown or touchstart on the canvas: with a touch a finger comes down.
CanvasDown(event) ==
  /\ event.type = "touch" => tileUI.touches < Fingers
  /\ tileUI' = [onPointerDown(tileUI, event, now)
                  EXCEPT !.touches = IF event.type = "touch" THEN @ + 1 ELSE @]
  /\ TileRest

\* mousemove or touchmove: a touch moves only while a finger is on the screen.
CanvasMove(event) ==
  /\ event.type = "touch" => tileUI.touches > 0
  /\ tileUI' = onPointerMove(tileUI, event)
  /\ TileRest

\* mouseup.
MouseUp(event) ==
  /\ event.type = "mouse"
  /\ tileUI' = onPointerUp(tileUI, event)
  /\ tileUI' # tileUI
  /\ TileRest

\* touchend: a finger is lifted; event.touches are the fingers that stay.
TouchEnd(event) ==
  /\ event.type = "touch"
  /\ tileUI.touches > 0
  /\ tileUI' = [(IF tileUI.touches - 1 >= 2
                 THEN onTwoFingerTouch(tileUI)
                 ELSE onPointerUp(tileUI, event))
                  EXCEPT !.touches = tileUI.touches - 1]
  /\ TileRest

\* world.update in a frame: TileSelectionSystem, then GameUISystem.
TileUpdate ==
  /\ tileUI' = GameUISystem_update(TileSelectionSystem_update(tileUI, now))
  /\ tileUI' # tileUI
  /\ TileRest

\* The close button of the panel, or a click outside the panel and the canvas
\* while the panel is shown.
ClosePanel ==
  /\ ~tileUI.panelHidden
  /\ tileUI' = closeTilePanel(tileUI)
  /\ TileRest

\* Time passes.
TileAdvance ==
  /\ steps < MaxSteps
  /\ now' = now + TimeStep
  /\ steps' = steps + 1
  /\ UNCHANGED <<storeVars, flowVars, gameVars, lastTime, isRunning, pendingFrames,
                 dueFrames, projectileIdCounter, pc, deltaTime, towers, enemies,
                 projectiles, entitiesToRemove, idx>>

TileNext ==
  \/ \E event \in PointerEvents : CanvasDown(event)
  \/ \E event \in PointerEvents : CanvasMove(event)
  \/ \E event \in PointerEvents : MouseUp(event)
  \/ \E event \in PointerEvents : TouchEnd(event)
  \/ TileUpdate
  \/ ClosePanel
  \/ TileAdvance

SpecTile == TileInit /\ [][TileNext]_vars

\* C34: when the only finger on the screen is lifted and a tile is selected
\* by that release, the tile is in touch-hover mode, which only a touch of at
\* least HOVER_TOUCH_DURATION on the hovered tile turns on; a release before
\* that selects nothing.
C34_ReleaseAfterHoverMode ==
  [][(tileUI.touches = 1 /\ tileUI'.touches = 0 /\ tileUI.hoveredEntity # NullId) =>
       /\ tileUI.tiles[tileUI.hoveredEntity].isTouchHover
       /\ now - tileUI.tiles[tileUI.hoveredEntity].touchStartTime >= HOVER_TOUCH_DURATION]_vars

\* C34 failing input: one finger has been on the screen for less than
\* HOVER_TOUCH_DURATION, the touch pointer is over a tile that a frame has
\* marked hovered, and touch-hover mode is off: lifting the finger selects it.
C34_EarlyRelease ==
  /\ tileUI.touches = 1
  /\ tileUI.currentPointer = [at |-> <<"tile", 0>>, type |-> "touch"]
  /\ tileUI.hoveredEntity = <<"tile", 0>>
  /\ ~tileUI.tiles[<<"tile", 0>>].isTouchHover
  /\ now - tileUI.tiles[<<"tile", 0>>].touchStartTime < HOVER_TOUCH_DURATION
  /\ \A t \in TileIds : ~IsSelected(tileUI, t)

SelectedTiles(ui) == {t \in TileIds : IsSelected(ui, t)}

\* C39: after any sequence of pointer events, frames and panel closings at
\* most one tile has Selection.isSelected = true, and a step that closes the
\* panel leaves no tile selected.
C39_SingleSelection ==
  /\ [](Cardinality(SelectedTiles(tileUI)) <= 1)
  /\ [][(~tileUI.panelHidden /\ tileUI'.panelHidden) => SelectedTiles(tileUI') = {}]_vars

\* C39 witness: the panel was closed with one tile selected and is hidden;
\* since then the other tile was selected: it is the only selected one, and
\* the tile selected before still has its Selection component.
C39_Witness ==
  /\ tileUI.panelHidden
  /\ SelectedTiles(tileUI) = {<<"tile", 1>>}
  /\ tileUI.tiles[<<"tile", 0>>].selection = [isSelected |-> FALSE]
  /\ tileUI.selectedEntity = <<"tile", 1>>

-----------------------------------------------------------------------------
(* C35: an attacker and its own projectiles.                                *)

\* C35: the projectile an attacker creates is never bound to the attacker
\* itself, and no step lowers the health of a tower.
C35_NoSelfTarget ==
  [][/\ (pc = "attackLoop" /\ idx <= Len(towers)) =>
          \A p \in InFlight(entityManager') \ InFlight(entityManager) :
            getComponent(entityManager', p, "Projectile").targetId # towers[idx]
     /\ \A id \in TowersIn(entityManager) :
          hasEntity(entityManager', id) =>
            HealthOf(entityManager', id) >= HealthOf(entityManager, id)]_vars

-----------------------------------------------------------------------------
(* C36: the ids of a run of Game.  The second variant of Game, whole: its    *)
(* placing mode stays on, so that two towers stand after three clicks.       *)

SecondNext ==
  \/ Start
  \/ Stop
  \/ pc = "idle" /\ RevisedPlaceButton
  \/ pc = "idle" /\ RevisedRemoveButton
  \/ pc = "idle" /\ RevisedCanvasClick
  \/ SpawnWave
  \/ SpawnEnemy
  \/ Advance
  \/ Frame
  \/ MovementStage
  \/ AttackBegin
  \/ AttackStep
  \/ AttackEnd
  \/ ProjectileBegin
  \/ ProjectileStep
  \/ ProjectileEnd

SpecSecond == Init /\ [][SecondNext]_vars

\* The counter the ids of a kind are numbered from.
IdCounter(kind, tower, enemy, projectile) ==
  IF kind = "tower" THEN tower ELSE IF kind = "enemy" THEN enemy ELSE projectile

IdKinds == {"tower", "enemy", "projectile"}

\* The ids of a kind that a step puts into the store.
NewIds(kind) ==
  {id \in StoredIds(entityManager') \ StoredIds(entityManager) : id[1] = kind}

\* C36: every id in the store is a tower, enemy or projectile id numbered
\* below the counter of its kind, so the id the next addEntity gets is not in
\* the store; and every step that raises a counter puts as many new ids of that
\* kind into the store: no insertion replaces a stored entity.
C36_FreshIds ==
  /\ [](\A id \in StoredIds(entityManager) :
          /\ id[1] \in IdKinds
          /\ id[2] < IdCounter(id[1], towerIdCounter, enemyIdCounter, projectileIdCounter))
  /\ [][\A kind \in IdKinds :
          Cardinality(NewIds(kind))
            = IdCounter(kind, towerIdCounter', enemyIdCounter', projectileIdCounter')
              - IdCounter(kind, towerIdCounter, enemyIdCounter, projectileIdCounter)]_vars

\* C36 witness: two towers have fired in the same tick, after the start: the
\* store holds both towers and the two projectiles.
C36_Witness ==
  /\ now > StartTime
  /\ TowersIn(entityManager) = {TowerId(0), TowerId(1)}
  /\ \A id \in TowersIn(entityManager) :
       getComponent(entityManager, id, "Timing").lastAttackTime = now
  /\ {ProjectileId(0), ProjectileId(1)} \subseteq StoredIds(entityManager)

-----------------------------------------------------------------------------
(* C37: what Targeting.currentTarget names.                                 *)

\* The stored entities with a Targeting component.
Targeters(em) == {id \in StoredIds(em) : hasComponent(getEntity(em, id), "Targeting")}

CurrentTargetOf(em, id) == getComponent(em, id, "Targeting").currentTarget

\* C37 as stated: between two ticks every currentTarget is absent or the id
\* of an entity in the store.
C37_Original ==
  pc = "idle" =>
    \A a \in Targeters(entityManager) :
      \/ CurrentTargetOf(entityManager, a) = NullId
      \/ hasEntity(entityManager, CurrentTargetOf(entityManager, a))

\* C37 amended: a currentTarget changes only in the loop body of the Attack
\* stage for its attacker, and becomes absent or the id of an entity that is
\* in the store at that moment; no other step, the removal of that entity
\* included, changes it.
C37_TargetAsLastChosen ==
  [][\A a \in Targeters(entityManager) \cap Targeters(entityManager') :
       CurrentTargetOf(entityManager', a) # CurrentTargetOf(entityManager, a) =>
         /\ pc = "attackLoop"
         /\ idx <= Len(towers)
         /\ a = towers[idx]
         /\ \/ CurrentTargetOf(entityManager', a) = NullId
            \/ hasEntity(entityManager, CurrentTargetOf(entityManager', a))]_vars

\* C37 witness: a tick has ended in which an attacker fired at an entity that
\* the Projectile-Resolution stage of the same tick removed: the attacker's
\* currentTarget still holds that id.
C37_Witness ==
  /\ pc = "idle"
  /\ \E a \in Targeters(entityManager) :
       /\ CurrentTargetOf(entityManager, a) # NullId
       /\ ~hasEntity(entityManager, CurrentTargetOf(entityManager, a))
       /\ getComponent(entityManager, a, "Timing").lastAttackTime = now

-----------------------------------------------------------------------------
(* C38: the tick loops of a game.                                           *)

\* The loops that go on while the game runs: every requested frame callback
\* will run a tick and request a callback again, and so will the gameLoop
\* whose update is in progress.
ActiveLoops == FramesRequested + (IF pc # "idle" THEN 1 ELSE 0)

\* C38: while the game runs at most one tick loop is active, so that an
\* animation frame has at most one callback to run and executes at most one
\* tick.
C38_SingleLoop == isRunning => ActiveLoops <= 1

\* C38 failing input: an animation frame of a running game begins with two
\* callbacks to run, after start() was called twice and stop() never.
C38_TwoTicksInFrame ==
  /\ isRunning
  /\ pc = "idle"
  /\ dueFrames = 2
  /\ inputs = 2
  /\ now > StartTime

-----------------------------------------------------------------------------
(* C40: the component index and the store.                                  *)

\* The ids the index holds under a component name.
Indexed(em, name) ==
  IF name \in DOMAIN em.componentIndex THEN em.componentIndex[name] ELSE {}

\* The ids of the stored entities that have the component.
Having(em, name) ==
  {id \in StoredIds(em) : hasComponent(getEntity(em, id), name)}

\* C40: after any addEntity and removeEntity calls the index holds, under
\* every component name, exactly the ids of the stored entities that have
\* that component, and it keeps no empty set.
C40_IndexConsistent ==
  /\ \A i \in 1..Len(ComponentOrder) :
       Indexed(entityManager, ComponentOrder[i]) = Having(entityManager, ComponentOrder[i])
  /\ \A name \in DOMAIN entityManager.componentIndex :
       entityManager.componentIndex[name] # {}

\* C40 failing input: an entity was inserted under the id of a stored entity
\* of another kind and then removed: the store is empty and the index still
\* holds the id under a component of the replaced entity.
C40_LeftInIndex ==
  /\ lastOp = "removeEntity"
  /\ entityManager.entities = <<>>
  /\ entityManager.componentIndex # <<>>

====
